---------------------------- MODULE Spec2Model ----------------------------
(***************************************************************************)
(* Chess rules engine of rusik69/chess: the coordinate codec, the Board    *)
(* with its per-piece movement rules, and the Game state machine           *)
(* (MakeMove, updateGameState, isInCheck, hasValidMoves).                  *)
(*                                                                         *)
(* A *Piece is modelled by the record it points to; a nil pointer is Nil.  *)
(* Every pointer of a board is held by exactly one square, so writing      *)
(* through the pointer (piece.HasMoved = true) is an update of the square  *)
(* that holds it.  A notation string is the sequence of its bytes.         *)
(***************************************************************************)
EXTENDS Integers, Sequences, FiniteSets, TLC

VARIABLES squares,        \* Board.squares: [8][8]*Piece
          CurrentPlayer,  \* Game.CurrentPlayer
          State,          \* Game.State
          MoveHistory,    \* Game.MoveHistory
          call,           \* the last call made on the game or board, and what it returned
          ai,             \* the AI object: color, depth and its three tables
          clones,         \* the Game objects copyGame made that are still in use
          stack,          \* the activations of AI.minimax, the innermost last
          search,         \* the activation of AI.GetBestMove: its position and locals
          ui              \* the activation of Interface.Run: its position and its reader

gameVars == <<squares, CurrentPlayer, State, MoveHistory>>
engineVars == <<ai, clones, stack, search, ui>>
vars == <<squares, CurrentPlayer, State, MoveHistory, call, ai, clones, stack, search, ui>>

---------------------------------------------------------------------------
(* piece.go: colours and piece kinds (iota constants) *)
White == 0
Black == 1

King == 0
Queen == 1
Rook == 2
Bishop == 3
Knight == 4
Pawn == 5
\* TestInvalidPieceType builds a piece of kind PieceType(99)
UnknownType == 99

(* game.go: GameState (iota constants) *)
Playing == 0
Check == 1
Checkmate == 2
Stalemate == 3
Draw == 4

\* the nil *Piece
Nil == [Type |-> -1, Color |-> -1, HasMoved |-> FALSE]

NewPiece(pieceType, color) == [Type |-> pieceType, Color |-> color, HasMoved |-> FALSE]

---------------------------------------------------------------------------
(* position.go *)
NewPosition(row, col) == [Row |-> row, Col |-> col]

IsValid(p) == p.Row >= 0 /\ p.Row < 8 /\ p.Col >= 0 /\ p.Col < 8

\* bytes of the letters and digits used in notations
Ord == [a |-> 97, b |-> 98, c |-> 99, d |-> 100, e |-> 101, f |-> 102,
        g |-> 103, h |-> 104, i |-> 105, z |-> 122, A |-> 65]

\* the two-byte notation of a file letter and a rank digit, e.g. Note("e", 2) is "e2"
Note(file, rank) == <<Ord[file], 48 + rank>>

\* a String that prints the row index plus one as the rank, without the flip
StringRowAsRank(p) ==
    IF ~IsValid(p) THEN <<105, 110, 118, 97, 108, 105, 100>>
    ELSE <<97 + p.Col, 48 + (p.Row + 1)>>

\* Position.String: "invalid" off the board, else the file letter and the digit 8 - Row
String(p) ==
    IF ~IsValid(p) THEN <<105, 110, 118, 97, 108, 105, 100>>
    ELSE <<97 + p.Col, 48 + (8 - p.Row)>>

\* a FromAlgebraic that reads the first two bytes of any longer string
FromAlgebraicPrefix(notation) ==
    IF Len(notation) < 2
    THEN [pos |-> NewPosition(0, 0), err |-> "invalid notation"]
    ELSE LET col == (notation[1] + 256 - 97) % 256
             row == 8 - ((notation[2] + 256 - 48) % 256)
             pos == NewPosition(row, col)
         IN IF ~IsValid(pos)
            THEN [pos |-> NewPosition(0, 0), err |-> "invalid position"]
            ELSE [pos |-> pos, err |-> "nil"]

\* FromAlgebraic: byte arithmetic wraps modulo 256 before the conversion to int
FromAlgebraic(notation) ==
    IF Len(notation) # 2
    THEN [pos |-> NewPosition(0, 0), err |-> "invalid notation"]
    ELSE LET col == (notation[1] + 256 - 97) % 256
             row == 8 - ((notation[2] + 256 - 48) % 256)
             pos == NewPosition(row, col)
         IN IF ~IsValid(pos)
            THEN [pos |-> NewPosition(0, 0), err |-> "invalid position"]
            ELSE [pos |-> pos, err |-> "nil"]

---------------------------------------------------------------------------
(* board.go *)
Rows == 0..7
Cols == 0..7

EmptyBoard == [r \in Rows |-> [c \in Cols |-> Nil]]

BackRank == <<Rook, Knight, Bishop, Queen, King, Bishop, Knight, Rook>>

\* NewBoard / setupInitialPosition
NewBoard ==
    [r \in Rows |-> [c \in Cols |->
        CASE r = 7 -> NewPiece(BackRank[c + 1], White)
          [] r = 6 -> NewPiece(Pawn, White)
          [] r = 0 -> NewPiece(BackRank[c + 1], Black)
          [] r = 1 -> NewPiece(Pawn, Black)
          [] OTHER -> Nil]]

GetPiece(b, pos) == IF ~IsValid(pos) THEN Nil ELSE b[pos.Row][pos.Col]

SetPiece(b, pos, piece) ==
    IF IsValid(pos) THEN [b EXCEPT ![pos.Row][pos.Col] = piece] ELSE b

\* a MovePiece that copies the piece to `to` and forgets to clear `from`
MovePieceKeepFrom(b, from, to) ==
    IF ~IsValid(from) \/ ~IsValid(to) THEN [ok |-> FALSE, board |-> b]
    ELSE LET piece == GetPiece(b, from)
         IN IF piece = Nil THEN [ok |-> FALSE, board |-> b]
            ELSE [ok |-> TRUE,
                  board |-> SetPiece(b, to, [piece EXCEPT !.HasMoved = TRUE])]

\* a MovePiece that tests only `from`: the piece is taken off the board and
\* the SetPiece on an off-board `to` drops it
MovePieceAnyTo(b, from, to) ==
    IF ~IsValid(from) THEN [ok |-> FALSE, board |-> b]
    ELSE LET piece == GetPiece(b, from)
         IN IF piece = Nil THEN [ok |-> FALSE, board |-> b]
            ELSE LET b1 == SetPiece(b, to, piece)
                     b2 == SetPiece(b1, from, Nil)
                 IN [ok |-> TRUE,
                     board |-> IF from = to \/ ~IsValid(to) THEN b2
                               ELSE [b2 EXCEPT ![to.Row][to.Col].HasMoved = TRUE]]

\* MovePiece: the result and the board after the call.  The flag is written
\* through the pointer, which stands on `to` unless from = to, when the
\* second SetPiece has already removed it from the board.
MovePiece(b, from, to) ==
    IF ~IsValid(from) \/ ~IsValid(to) THEN [ok |-> FALSE, board |-> b]
    ELSE LET piece == GetPiece(b, from)
         IN IF piece = Nil THEN [ok |-> FALSE, board |-> b]
            ELSE LET b1 == SetPiece(b, to, piece)
                     b2 == SetPiece(b1, from, Nil)
                 IN [ok |-> TRUE,
                     board |-> IF from = to THEN b2
                               ELSE [b2 EXCEPT ![to.Row][to.Col].HasMoved = TRUE]]

---------------------------------------------------------------------------
(* moves.go *)
NewMove(from, to) == [From |-> from, To |-> to]

\* math.Abs on an int difference
Abs(x) == IF x < 0 THEN -x ELSE x

\* the loop of isPathClear, from the square (currentRow, currentCol)
RECURSIVE pathLoop(_, _, _, _, _, _)
pathLoop(b, currentRow, currentCol, to, rowStep, colStep) ==
    IF currentRow # to.Row \/ currentCol # to.Col
    THEN IF GetPiece(b, NewPosition(currentRow, currentCol)) # Nil THEN FALSE
         ELSE pathLoop(b, currentRow + rowStep, currentCol + colStep, to, rowStep, colStep)
    ELSE TRUE

\* an isPathClear that looks at no square
isPathClearBlind(b, from, to) == TRUE

isPathClear(b, from, to) ==
    LET rowStep == IF to.Row > from.Row THEN 1 ELSE IF to.Row < from.Row THEN -1 ELSE 0
        colStep == IF to.Col > from.Col THEN 1 ELSE IF to.Col < from.Col THEN -1 ELSE 0
    IN pathLoop(b, from.Row + rowStep, from.Col + colStep, to, rowStep, colStep)

\* an isValidPawnMove whose two-square advance does not look at the square in between
isValidPawnMoveJump(b, move, piece) ==
    LET rowDiff == move.To.Row - move.From.Row
        colDiff == move.To.Col - move.From.Col
        direction == IF piece.Color = Black THEN 1 ELSE -1
        startRow == IF piece.Color = Black THEN 1 ELSE 6
    IN IF colDiff = 0 /\ rowDiff = direction
       THEN GetPiece(b, move.To) = Nil
       ELSE IF colDiff = 0 /\ rowDiff = 2 * direction /\ move.From.Row = startRow
       THEN GetPiece(b, move.To) = Nil
       ELSE IF Abs(colDiff) = 1 /\ rowDiff = direction
       THEN LET destPiece == GetPiece(b, move.To)
            IN destPiece # Nil /\ destPiece.Color # piece.Color
       ELSE FALSE

isValidPawnMove(b, move, piece) ==
    LET rowDiff == move.To.Row - move.From.Row
        colDiff == move.To.Col - move.From.Col
        direction == IF piece.Color = Black THEN 1 ELSE -1
        startRow == IF piece.Color = Black THEN 1 ELSE 6
    IN IF colDiff = 0 /\ rowDiff = direction
       THEN GetPiece(b, move.To) = Nil
       ELSE IF colDiff = 0 /\ rowDiff = 2 * direction /\ move.From.Row = startRow
       THEN /\ GetPiece(b, move.To) = Nil
            /\ GetPiece(b, NewPosition(move.From.Row + direction, move.From.Col)) = Nil
       ELSE IF Abs(colDiff) = 1 /\ rowDiff = direction
       THEN LET destPiece == GetPiece(b, move.To)
            IN destPiece # Nil /\ destPiece.Color # piece.Color
       ELSE FALSE

isValidRookMove(b, move) ==
    IF move.From.Row # move.To.Row /\ move.From.Col # move.To.Col THEN FALSE
    ELSE isPathClear(b, move.From, move.To)

isValidKnightMove(b, move) ==
    LET rowDiff == Abs(move.To.Row - move.From.Row)
        colDiff == Abs(move.To.Col - move.From.Col)
    IN (rowDiff = 2 /\ colDiff = 1) \/ (rowDiff = 1 /\ colDiff = 2)

isValidBishopMove(b, move) ==
    LET rowDiff == Abs(move.To.Row - move.From.Row)
        colDiff == Abs(move.To.Col - move.From.Col)
    IN IF rowDiff # colDiff THEN FALSE
       ELSE isPathClear(b, move.From, move.To)

isValidQueenMove(b, move) == isValidRookMove(b, move) \/ isValidBishopMove(b, move)

isValidKingMove(b, move) ==
    LET rowDiff == Abs(move.To.Row - move.From.Row)
        colDiff == Abs(move.To.Col - move.From.Col)
    IN rowDiff <= 1 /\ colDiff <= 1

\* the switch on piece.Type of IsValidMove
pieceRule(b, move, piece) ==
    CASE piece.Type = Pawn -> isValidPawnMove(b, move, piece)
      [] piece.Type = Rook -> isValidRookMove(b, move)
      [] piece.Type = Knight -> isValidKnightMove(b, move)
      [] piece.Type = Bishop -> isValidBishopMove(b, move)
      [] piece.Type = Queen -> isValidQueenMove(b, move)
      [] piece.Type = King -> isValidKingMove(b, move)
      [] OTHER -> FALSE

\* an IsValidMove without the check of the destination's colour
IsValidMoveOntoOwn(b, move, currentPlayer) ==
    LET piece == GetPiece(b, move.From)
    IN IF piece = Nil THEN FALSE
       ELSE IF piece.Color # currentPlayer THEN FALSE
       ELSE pieceRule(b, move, piece)

IsValidMove(b, move, currentPlayer) ==
    LET piece == GetPiece(b, move.From)
        destPiece == GetPiece(b, move.To)
    IN IF piece = Nil THEN FALSE
       ELSE IF piece.Color # currentPlayer THEN FALSE
       ELSE IF destPiece # Nil /\ destPiece.Color = piece.Color THEN FALSE
       ELSE pieceRule(b, move, piece)

\* the order of every row-major double loop: row 0..7, col 0..7
ScanOrder == [i \in 1..64 |-> NewPosition((i - 1) \div 8, (i - 1) % 8)]

\* a GetValidMoves that stops its row loop one row early
GetValidMovesShort(b, pos) ==
    LET piece == GetPiece(b, pos)
    IN IF piece = Nil THEN <<>>
       ELSE SelectSeq([i \in 1..56 |-> NewMove(pos, ScanOrder[i])],
                      LAMBDA move : IsValidMove(b, move, piece.Color))

\* GetValidMoves: the moves in the order they are appended
GetValidMoves(b, pos) ==
    LET piece == GetPiece(b, pos)
    IN IF piece = Nil THEN <<>>
       ELSE SelectSeq([i \in 1..64 |-> NewMove(pos, ScanOrder[i])],
                      LAMBDA move : IsValidMove(b, move, piece.Color))

---------------------------------------------------------------------------
(* game.go *)
Opponent(player) == IF player = Black THEN White ELSE Black

\* the indices, in scan order, of the squares holding a king of the player
kingIndices(b, player) ==
    {i \in 1..64 : LET piece == GetPiece(b, ScanOrder[i])
                   IN piece # Nil /\ piece.Type = King /\ piece.Color = player}

\* an isInCheck that reports check when the king is missing
isInCheckNoKing(b, player) ==
    LET found == kingIndices(b, player)
    IN IF found = {} THEN TRUE
       ELSE LET kingPos == ScanOrder[CHOOSE i \in found : \A j \in found : i <= j]
                opponent == Opponent(player)
            IN \E i \in 1..64 :
                  LET piece == GetPiece(b, ScanOrder[i])
                  IN /\ piece # Nil
                     /\ piece.Color = opponent
                     /\ IsValidMove(b, NewMove(ScanOrder[i], kingPos), opponent)

\* isInCheck: the first loop stops at the first king of the player in scan
\* order; the second loop returns true at the first opposing piece that has
\* a valid move onto that square
isInCheck(b, player) ==
    LET found == kingIndices(b, player)
    IN IF found = {} THEN FALSE
       ELSE LET kingPos == ScanOrder[CHOOSE i \in found : \A j \in found : i <= j]
                opponent == Opponent(player)
            IN \E i \in 1..64 :
                  LET piece == GetPiece(b, ScanOrder[i])
                  IN /\ piece # Nil
                     /\ piece.Color = opponent
                     /\ IsValidMove(b, NewMove(ScanOrder[i], kingPos), opponent)

\* a trial loop that moves the piece back but does not put back the piece
\* that stood on the destination
RECURSIVE tryMovesNoRestore(_, _, _, _)
tryMovesNoRestore(b, player, moves, i) ==
    IF i > Len(moves) THEN [found |-> FALSE, board |-> b]
    ELSE LET move == moves[i]
             tried == MovePiece(b, move.From, move.To).board
             inCheck == isInCheck(tried, player)
             back == MovePiece(tried, move.To, move.From).board
         IN IF ~inCheck THEN [found |-> TRUE, board |-> back]
            ELSE tryMovesNoRestore(back, player, moves, i + 1)

\* the inner loop of hasValidMoves over the moves of one piece, from moves[i]:
\* try the move on the live board, test isInCheck, undo, stop at the first
\* move that does not leave the king in check
RECURSIVE tryMoves(_, _, _, _)
tryMoves(b, player, moves, i) ==
    IF i > Len(moves) THEN [found |-> FALSE, board |-> b]
    ELSE LET move == moves[i]
             originalPiece == GetPiece(b, move.To)
             tried == MovePiece(b, move.From, move.To).board
             inCheck == isInCheck(tried, player)
             back == MovePiece(tried, move.To, move.From).board
             undone == SetPiece(back, move.To, originalPiece)
         IN IF ~inCheck THEN [found |-> TRUE, board |-> undone]
            ELSE tryMoves(undone, player, moves, i + 1)

\* the outer loops of hasValidMoves, from the square ScanOrder[idx]
RECURSIVE scanPieces(_, _, _)
scanPieces(b, player, idx) ==
    IF idx > 64 THEN [found |-> FALSE, board |-> b]
    ELSE LET pos == ScanOrder[idx]
             piece == GetPiece(b, pos)
         IN IF piece # Nil /\ piece.Color = player
            THEN LET r == tryMoves(b, player, GetValidMoves(b, pos), 1)
                 IN IF r.found THEN r ELSE scanPieces(r.board, player, idx + 1)
            ELSE scanPieces(b, player, idx + 1)

\* a hasValidMoves that takes any pseudo-legal move for a valid move
hasValidMovesPseudo(b, player) ==
    [found |-> \E i \in 1..64 :
                  LET piece == GetPiece(b, ScanOrder[i])
                  IN piece # Nil /\ piece.Color = player
                     /\ Len(GetValidMoves(b, ScanOrder[i])) > 0,
     board |-> b]

\* hasValidMoves: its result and the board it leaves behind
hasValidMoves(b, player) == scanPieces(b, player, 1)

\* an updateGameState that tells Stalemate when the player is in check
updateGameStateSwapped(b, player) ==
    LET updated(inCheck, has) ==
            [board |-> has.board,
             State |-> IF inCheck
                       THEN (IF has.found THEN Check ELSE Stalemate)
                       ELSE (IF ~has.found THEN Checkmate ELSE Playing)]
    IN updated(isInCheck(b, player), hasValidMoves(b, player))

\* updateGameState for the player to move: the new State and the board left
\* behind by hasValidMoves, which every branch calls exactly once
updateGameState(b, player) ==
    LET updated(inCheck, has) ==
            [board |-> has.board,
             State |-> IF inCheck
                       THEN (IF has.found THEN Check ELSE Checkmate)
                       ELSE (IF ~has.found THEN Stalemate ELSE Playing)]
    IN updated(isInCheck(b, player), hasValidMoves(b, player))

\* a Game value
NewGame == [Board |-> NewBoard, CurrentPlayer |-> White, State |-> Playing,
            MoveHistory |-> <<>>]

\* the game after an applied move: relocate, append, switch players, update state
applyMove(g, move) ==
    LET moved == MovePiece(g.Board, move.From, move.To).board
        next == IF g.CurrentPlayer = White THEN Black ELSE White
        upd == updateGameState(moved, next)
    IN [Board |-> upd.board, CurrentPlayer |-> next, State |-> upd.State,
        MoveHistory |-> Append(g.MoveHistory, move)]

\* a MakeMove that records the move before it validates it
MakeMoveEarlyAppend(g, from, to) ==
    LET fromRes == FromAlgebraic(from)
        toRes == FromAlgebraic(to)
        move == NewMove(fromRes.pos, toRes.pos)
    IN IF fromRes.err # "nil" THEN [game |-> g, err |-> "invalid from position"]
       ELSE IF toRes.err # "nil" THEN [game |-> g, err |-> "invalid to position"]
       ELSE IF ~IsValidMove(g.Board, move, g.CurrentPlayer)
       THEN [game |-> [g EXCEPT !.MoveHistory = Append(g.MoveHistory, move)],
             err |-> "invalid move"]
       ELSE [game |-> applyMove(g, move), err |-> "nil"]

\* a MakeMove that switches players on every call with two parsed endpoints
MakeMoveAlwaysSwitch(g, from, to) ==
    LET fromRes == FromAlgebraic(from)
        toRes == FromAlgebraic(to)
        move == NewMove(fromRes.pos, toRes.pos)
    IN IF fromRes.err # "nil" THEN [game |-> g, err |-> "invalid from position"]
       ELSE IF toRes.err # "nil" THEN [game |-> g, err |-> "invalid to position"]
       ELSE IF ~IsValidMove(g.Board, move, g.CurrentPlayer)
       THEN [game |-> [g EXCEPT !.CurrentPlayer = Opponent(g.CurrentPlayer)],
             err |-> "invalid move"]
       ELSE [game |-> applyMove(g, move), err |-> "nil"]

\* a MakeMove that rejects a move leaving the mover's own king attacked
MakeMoveKingSafe(g, from, to) ==
    LET fromRes == FromAlgebraic(from)
        toRes == FromAlgebraic(to)
        move == NewMove(fromRes.pos, toRes.pos)
    IN IF fromRes.err # "nil" THEN [game |-> g, err |-> "invalid from position"]
       ELSE IF toRes.err # "nil" THEN [game |-> g, err |-> "invalid to position"]
       ELSE IF ~IsValidMove(g.Board, move, g.CurrentPlayer)
       THEN [game |-> g, err |-> "invalid move"]
       ELSE IF isInCheck(MovePiece(g.Board, move.From, move.To).board, g.CurrentPlayer)
       THEN [game |-> g, err |-> "invalid move"]
       ELSE [game |-> applyMove(g, move), err |-> "nil"]

\* Game.MakeMove: the game after the call and the error returned
MakeMove(g, from, to) ==
    LET fromRes == FromAlgebraic(from)
        toRes == FromAlgebraic(to)
        move == NewMove(fromRes.pos, toRes.pos)
    IN IF fromRes.err # "nil" THEN [game |-> g, err |-> "invalid from position"]
       ELSE IF toRes.err # "nil" THEN [game |-> g, err |-> "invalid to position"]
       ELSE IF ~IsValidMove(g.Board, move, g.CurrentPlayer)
       THEN [game |-> g, err |-> "invalid move"]
       ELSE [game |-> applyMove(g, move), err |-> "nil"]

IsGameOver(state) == state = Checkmate \/ state = Stalemate \/ state = Draw

---------------------------------------------------------------------------
(* ai.go: the helpers of the search.  A score (float64 in the program) is  *)
(* written in hundredths: 3.2 is 320, 0.05 is 5, 1000.0 is 100000.  Every  *)
(* score the program forms is a sum of multiples of 0.05; the rounding of  *)
(* the float64 sums is not modelled.                                       *)

\* math.Inf(1); math.Inf(-1) is -Inf
Inf == 1000000000

\* the score 1000.0 of a checkmate, in hundredths
MateScore == 100000

\* float64(ply), in hundredths
PlyScore(ply) == 100 * ply

MaxF(x, y) == IF x > y THEN x ELSE y
MinF(x, y) == IF x < y THEN x ELSE y

\* Move{}: the zero value of Move
ZeroMove == NewMove(NewPosition(0, 0), NewPosition(0, 0))

\* getPieceValue: a kind missing from the map has value 0
getPieceValue(pieceType) ==
    CASE pieceType = Pawn -> 1
      [] pieceType = Knight -> 3
      [] pieceType = Bishop -> 3
      [] pieceType = Rook -> 5
      [] pieceType = Queen -> 9
      [] OTHER -> 0

isCapture(move, g) == GetPiece(g.Board, move.To) # Nil

isCenterMove(pos) == (pos.Row >= 2 /\ pos.Row <= 5) /\ (pos.Col >= 2 /\ pos.Col <= 5)

getOpponentColor(color) == IF color = White THEN Black ELSE White

\* the nil *Position
NilPosition == NewPosition(-1, -1)

\* findKing: the first king of the colour in scan order, nil when there is none
findKing(g, color) ==
    LET found == kingIndices(g.Board, color)
    IN IF found = {} THEN NilPosition
       ELSE ScanOrder[CHOOSE i \in found : \A j \in found : i <= j]

\* the exclusive or of two unsigned integers
RECURSIVE Xor(_, _)
Xor(x, y) ==
    IF x = 0 THEN y
    ELSE IF y = 0 THEN x
    ELSE ((x + y) % 2) + 2 * Xor(x \div 2, y \div 2)

\* the exclusive or of the terms of the squares ScanOrder[lo..hi]; the order
\* in which the terms are combined does not change an exclusive or
RECURSIVE hashLoop(_, _, _)
hashLoop(b, lo, hi) ==
    IF lo = hi
    THEN LET piece == GetPiece(b, ScanOrder[lo])
         IN IF piece = Nil THEN 0 ELSE (piece.Type + piece.Color * 10) * lo
    ELSE LET mid == (lo + hi) \div 2
         IN Xor(hashLoop(b, lo, mid), hashLoop(b, mid + 1, hi))

\* hashPosition: row*8 + col + 1 is the index of the square in scan order
hashPosition(g) == Xor(hashLoop(g.Board, 1, 64), g.CurrentPlayer * 1000000)

\* the moves appended for the squares ScanOrder[lo..hi], in scan order
RECURSIVE movesLoop(_, _, _, _)
movesLoop(b, color, lo, hi) ==
    IF lo = hi
    THEN LET piece == GetPiece(b, ScanOrder[lo])
         IN IF piece = Nil \/ piece.Color # color THEN <<>>
            ELSE GetValidMoves(b, ScanOrder[lo])
    ELSE LET mid == (lo + hi) \div 2
         IN movesLoop(b, color, lo, mid) \o movesLoop(b, color, mid + 1, hi)

getAllPossibleMovesForColor(g, color) == movesLoop(g.Board, color, 1, 64)

getAllPossibleMoves(g) == getAllPossibleMovesForColor(g, g.CurrentPlayer)

\* the Game value copyGame builds: a NewBoard() on which every occupied
\* square of the source is overwritten by a fresh piece of the same kind and
\* colour (HasMoved is not copied), and a square that is empty in the source
\* keeps what NewBoard() put there
copiedGame(g) ==
    [Board |-> [r \in Rows |-> [c \in Cols |->
                    LET piece == GetPiece(g.Board, NewPosition(r, c))
                    IN IF piece # Nil
                       THEN [Type |-> piece.Type, Color |-> piece.Color, HasMoved |-> FALSE]
                       ELSE NewBoard[r][c]]],
     CurrentPlayer |-> g.CurrentPlayer,
     State |-> g.State,
     MoveHistory |-> g.MoveHistory]

\* evaluatePosition's tables, in hundredths
pawnTable ==
    << <<0, 0, 0, 0, 0, 0, 0, 0>>,
       <<80, 80, 80, 80, 80, 80, 80, 80>>,
       <<30, 30, 40, 50, 50, 40, 30, 30>>,
       <<10, 10, 20, 40, 40, 20, 10, 10>>,
       <<5, 5, 10, 30, 30, 10, 5, 5>>,
       <<5, -5, -10, 0, 0, -10, -5, 5>>,
       <<5, 10, 10, -20, -20, 10, 10, 5>>,
       <<0, 0, 0, 0, 0, 0, 0, 0>> >>

knightTable ==
    << <<-50, -40, -30, -30, -30, -30, -40, -50>>,
       <<-40, -20, 0, 0, 0, 0, -20, -40>>,
       <<-30, 0, 10, 15, 15, 10, 0, -30>>,
       <<-30, 5, 15, 20, 20, 15, 5, -30>>,
       <<-30, 0, 15, 20, 20, 15, 0, -30>>,
       <<-30, 5, 10, 15, 15, 10, 5, -30>>,
       <<-40, -20, 0, 5, 5, 0, -20, -40>>,
       <<-50, -40, -30, -30, -30, -30, -40, -50>> >>

bishopTable ==
    << <<-20, -10, -10, -10, -10, -10, -10, -20>>,
       <<-10, 0, 0, 0, 0, 0, 0, -10>>,
       <<-10, 0, 5, 10, 10, 5, 0, -10>>,
       <<-10, 5, 5, 10, 10, 5, 5, -10>>,
       <<-10, 0, 10, 10, 10, 10, 0, -10>>,
       <<-10, 10, 10, 10, 10, 10, 10, -10>>,
       <<-10, 5, 0, 0, 0, 0, 5, -10>>,
       <<-20, -10, -10, -10, -10, -10, -10, -20>> >>

rookTable ==
    << <<0, 0, 0, 0, 0, 0, 0, 0>>,
       <<5, 10, 10, 10, 10, 10, 10, 5>>,
       <<-5, 0, 0, 0, 0, 0, 0, -5>>,
       <<-5, 0, 0, 0, 0, 0, 0, -5>>,
       <<-5, 0, 0, 0, 0, 0, 0, -5>>,
       <<-5, 0, 0, 0, 0, 0, 0, -5>>,
       <<-5, 0, 0, 0, 0, 0, 0, -5>>,
       <<0, 0, 0, 5, 5, 0, 0, 0>> >>

\* pieceValues: a kind missing from the map has value 0.0
pieceValues(pieceType) ==
    CASE pieceType = Pawn -> 100
      [] pieceType = Knight -> 320
      [] pieceType = Bishop -> 330
      [] pieceType = Rook -> 500
      [] pieceType = Queen -> 900
      [] OTHER -> 0

\* evaluatePosition, "piece development bonus": 0.15 for a knight or bishop
\* of White off row 0, or of Black off row 7
pieceDevelopment(piece, row) ==
    IF (piece.Type = Knight \/ piece.Type = Bishop)
       /\ ((piece.Color = White /\ row # 0) \/ (piece.Color = Black /\ row # 7))
    THEN 15 ELSE 0

\* the value of the piece on (row, col): material, table and development bonus
pieceScore(piece, row, col) ==
    pieceValues(piece.Type)
    + (CASE piece.Type = Pawn ->
               IF piece.Color = White THEN pawnTable[(7 - row) + 1][col + 1]
               ELSE pawnTable[row + 1][col + 1]
         [] piece.Type = Knight -> knightTable[row + 1][col + 1]
         [] piece.Type = Bishop -> bishopTable[row + 1][col + 1]
         [] piece.Type = Rook -> rookTable[row + 1][col + 1]
         [] OTHER -> 0)
    + pieceDevelopment(piece, row)

\* the material and positional sum over the squares ScanOrder[lo..hi]
RECURSIVE materialLoop(_, _, _, _)
materialLoop(b, color, lo, hi) ==
    IF lo = hi
    THEN LET pos == ScanOrder[lo]
             piece == GetPiece(b, pos)
         IN IF piece = Nil THEN 0
            ELSE IF piece.Color = color THEN pieceScore(piece, pos.Row, pos.Col)
            ELSE -pieceScore(piece, pos.Row, pos.Col)
    ELSE LET mid == (lo + hi) \div 2
         IN materialLoop(b, color, lo, mid) + materialLoop(b, color, mid + 1, hi)

centerSquares ==
    <<NewPosition(3, 3), NewPosition(3, 4), NewPosition(4, 3), NewPosition(4, 4)>>

extendedCenter ==
    <<NewPosition(2, 2), NewPosition(2, 3), NewPosition(2, 4), NewPosition(2, 5),
      NewPosition(3, 2), NewPosition(3, 5),
      NewPosition(4, 2), NewPosition(4, 5),
      NewPosition(5, 2), NewPosition(5, 3), NewPosition(5, 4), NewPosition(5, 5)>>

\* the signed bonus for the occupied squares of a list
RECURSIVE occupancy(_, _, _, _, _)
occupancy(b, color, list, idx, bonus) ==
    IF idx > Len(list) THEN 0
    ELSE LET piece == GetPiece(b, list[idx])
         IN (IF piece = Nil THEN 0 ELSE IF piece.Color = color THEN bonus ELSE -bonus)
            + occupancy(b, color, list, idx + 1, bonus)

kingSafety(g, color) ==
    LET aiKingPos == findKing(g, color)
    IN IF aiKingPos = NilPosition THEN 0
       ELSE (IF aiKingPos.Row >= 2 /\ aiKingPos.Row <= 5
                /\ aiKingPos.Col >= 2 /\ aiKingPos.Col <= 5 THEN -80 ELSE 0)
            + (IF color = White /\ aiKingPos.Row <= 1 THEN 20
               ELSE IF color = Black /\ aiKingPos.Row >= 6 THEN 20
               ELSE 0)

\* evaluatePosition, from the side of the engine's colour
evaluatePosition(g, color) ==
    IF g.State = Checkmate
    THEN IF g.CurrentPlayer = color THEN -MateScore ELSE MateScore
    ELSE IF g.State = Stalemate THEN 0
    ELSE materialLoop(g.Board, color, 1, 64)
         + occupancy(g.Board, color, centerSquares, 1, 30)
         + occupancy(g.Board, color, extendedCenter, 1, 10)
         + kingSafety(g, color)
         + 5 * (Len(getAllPossibleMovesForColor(g, color))
                - Len(getAllPossibleMovesForColor(g, getOpponentColor(color))))

---------------------------------------------------------------------------
(* ai.go: the AI object and the search.  GetBestMove and minimax are run   *)
(* one loop iteration or one call entry at a time; the activations of      *)
(* minimax are the frames of `stack`.  A *Game is a reference: 0 is the    *)
(* caller's game (the variables squares, CurrentPlayer, State and          *)
(* MoveHistory), a positive reference is a clone held in `clones`.         *)

\* NewAI(color, depth): empty tables, zeroed killer moves
NewAI(color, depth) ==
    [color |-> color, depth |-> depth,
     transpositionTable |-> <<>>,
     killerMoves |-> [p \in 1..10 |-> <<ZeroMove, ZeroMove>>],
     historyTable |-> <<>>]

\* orderMoves, the term "prioritize piece development": 30 for a knight or
\* bishop of White leaving row 0, or of Black leaving row 7
developmentBonus(move, g) ==
    LET piece == GetPiece(g.Board, move.From)
    IN IF piece # Nil /\ (piece.Type = Knight \/ piece.Type = Bishop)
          /\ ((piece.Color = White /\ move.From.Row = 0)
              \/ (piece.Color = Black /\ move.From.Row = 7))
       THEN 30 ELSE 0

\* orderMoves' score of one move
moveScore(a, move, g, ply) ==
    LET attacker == GetPiece(g.Board, move.From)
        victim == GetPiece(g.Board, move.To)
    IN (IF isCapture(move, g) /\ attacker # Nil /\ victim # Nil
        THEN getPieceValue(victim.Type) * 10 - getPieceValue(attacker.Type) ELSE 0)
       + (IF ply < 10
          THEN IF move = a.killerMoves[ply + 1][1] THEN 900
               ELSE IF move = a.killerMoves[ply + 1][2] THEN 800 ELSE 0
          ELSE 0)
       + (IF move \in DOMAIN a.historyTable THEN a.historyTable[move] \div 100 ELSE 0)
       + (IF isCenterMove(move.To) THEN 50 ELSE 0)
       + developmentBonus(move, g)

\* the ways sort.Slice, which is not a stable sort, is let order moves of
\* equal score: as they were listed, or the other way round
TieOrders == {"kept", "reversed"}

\* an orderMoves that hands the moves back as they were listed
orderMovesUnsorted(a, moves, g, ply, ties) == moves

\* orderMoves: the moves by decreasing score
orderMoves(a, moves, g, ply, ties) ==
    LET n == Len(moves)
        score == [i \in 1..n |-> moveScore(a, moves[i], g, ply)] \o <<>>
        Before(i, j) ==
            \/ score[i] > score[j]
            \/ score[i] = score[j] /\ (IF ties = "kept" THEN i < j ELSE i > j)
        place == [i \in 1..n |-> 1 + Cardinality({j \in 1..n : Before(j, i)})] \o <<>>
    IN [k \in 1..n |-> moves[CHOOSE i \in 1..n : place[i] = k]] \o <<>>

\* every Game object: the caller's under reference 0, and the clones
Memory(g, cl) == (0 :> g) @@ cl

\* the first reference not in use
NewRef(mem) == CHOOSE r \in 1..Cardinality(DOMAIN mem) : r \notin DOMAIN mem

\* a copyGame that hands back the game it was given
copyGameSame(mem, r) == [ref |-> r, mem |-> mem]

\* copyGame: a new Game object
copyGame(mem, r) ==
    LET new == NewRef(mem)
    IN [ref |-> new, mem |-> (new :> copiedGame(mem[r])) @@ mem]

\* the Game objects after a call of MakeMove on the object `r` returned `res`
written(mem, r, res) == [mem |-> [mem EXCEPT ![r] = res.game], err |-> res.err]

\* gameCopy.MakeMove(from, to): the call writes to the object it is made on
MakeMoveOn(mem, r, from, to) == written(mem, r, MakeMove(mem[r], from, to))

\* gameCopy := ai.copyGame(game); err := gameCopy.MakeMove(move.From.String(),
\* move.To.String()): the clone's reference, the Game objects and the error
movedOn(copied, move) ==
    [ref |-> copied.ref] @@
    MakeMoveOn(copied.mem, copied.ref, String(move.From), String(move.To))

copyAndMove(mem, r, move) == movedOn(copyGame(mem, r), move)

\* the depth a child call of minimax is given
childDepth(depth) == depth - 1

\* an iterative-deepening loop whose counter does not advance
nextDepthStuck(currentDepth) == currentDepth

\* currentDepth++
nextDepth(currentDepth) == currentDepth + 1

\* an activation of minimax at its entry
Frame(ref, depth, isMaximizing, alpha, beta, ply) ==
    [game |-> ref, depth |-> depth, isMaximizing |-> isMaximizing,
     alpha |-> alpha, beta |-> beta, ply |-> ply,
     pc |-> "enter", hash |-> 0, originalAlpha |-> alpha, bestScore |-> 0,
     orderedMoves |-> <<>>, i |-> 0]

\* GetBestMove's activation when it is not running: pc is "idle" before the
\* call and "done" after the return; `ties` is the order sort.Slice gives to
\* moves of equal score
Stopped(pc, ties) ==
    [pc |-> pc, ties |-> ties,
     allMoves |-> <<>>, bestMove |-> ZeroMove, bestScore |-> -Inf, currentDepth |-> 0,
     tempBestMove |-> ZeroMove, tempBestScore |-> -Inf, orderedMoves |-> <<>>, i |-> 0]

Top(stk) == stk[Len(stk)]
Pop(stk) == SubSeq(stk, 1, Len(stk) - 1)
SetTop(stk, frame) == [stk EXCEPT ![Len(stk)] = frame]

\* the machine: the AI object, the Game objects, the activations, the result
Machine(a, mem, stk, srch, c) ==
    [ai |-> a, mem |-> mem, stack |-> stk, search |-> srch, call |-> c]

\* the killer moves after a cutoff by `move` at `ply`
storeKiller(a, move, ply) ==
    [a EXCEPT !.killerMoves[ply + 1] = <<move, a.killerMoves[ply + 1][1]>>]

\* ai.historyTable[move] += bonus
addHistory(a, move, bonus) ==
    [a EXCEPT !.historyTable =
        (move :> ((IF move \in DOMAIN a.historyTable THEN a.historyTable[move] ELSE 0)
                  + bonus)) @@ a.historyTable]

\* ai.transpositionTable[hash] = TranspositionEntry{depth, score, flag}
storeEntry(a, hash, depth, score, flag) ==
    [a EXCEPT !.transpositionTable =
        (hash :> [depth |-> depth, score |-> score, flag |-> flag])
            @@ a.transpositionTable]

\* the top activation of minimax returns `score` to its caller: a caller of
\* minimax itself, GetBestMove's move loop (lines 67-71) or the move loop of
\* the activation below it (lines 141-165)
Return(m, score) ==
    LET rest == Pop(m.stack)
    IN IF rest = <<>> /\ m.search.pc = "minimax"
       THEN [m EXCEPT !.stack = rest,
                      !.search.pc = "done",
                      !.call = [op |-> "minimax", depth |-> m.call.depth,
                                isMaximizing |-> m.call.isMaximizing,
                                alpha |-> m.call.alpha, beta |-> m.call.beta,
                                ret |-> score]]
       ELSE IF rest = <<>>
       THEN LET move == m.search.orderedMoves[m.search.i]
                better == score > m.search.tempBestScore
            IN [m EXCEPT !.stack = rest,
                         !.search.tempBestScore = IF better THEN score ELSE @,
                         !.search.tempBestMove = IF better THEN move ELSE @,
                         !.search.i = @ + 1]
       ELSE LET parent == Top(rest)
                move == parent.orderedMoves[parent.i]
                bestScore == IF parent.isMaximizing
                             THEN IF score > parent.bestScore THEN score ELSE parent.bestScore
                             ELSE IF score < parent.bestScore THEN score ELSE parent.bestScore
                alpha == IF parent.isMaximizing THEN MaxF(parent.alpha, score)
                         ELSE parent.alpha
                beta == IF parent.isMaximizing THEN parent.beta
                        ELSE MinF(parent.beta, score)
                cutoff == beta <= alpha
                a1 == IF cutoff /\ parent.ply < 10 /\ ~isCapture(move, m.mem[parent.game])
                      THEN storeKiller(m.ai, move, parent.ply) ELSE m.ai
                a2 == IF cutoff THEN addHistory(a1, move, parent.depth * parent.depth)
                      ELSE a1
            IN [m EXCEPT !.ai = a2,
                         !.stack = SetTop(rest,
                             [parent EXCEPT !.bestScore = bestScore,
                                            !.alpha = alpha,
                                            !.beta = beta,
                                            !.i = IF cutoff THEN Len(parent.orderedMoves) + 1
                                                  ELSE @ + 1])]

\* minimax, lines 102-111: the static evaluation is stored and returned
minimaxLeaf(m, frame, hash, score) ==
    Return([m EXCEPT !.ai = storeEntry(m.ai, hash, frame.depth, score, 0)], score)

\* minimax, lines 113-132: no move is a mate or a stalemate score, else the
\* activation stands at the head of its move loop
minimaxMoves(m, frame, hash, alpha, beta, g, moves) ==
    IF Len(moves) = 0
    THEN IF isInCheck(g.Board, g.CurrentPlayer)
         THEN IF frame.isMaximizing
              THEN Return(m, -MateScore + PlyScore(frame.ply))
              ELSE Return(m, MateScore - PlyScore(frame.ply))
         ELSE Return(m, 0)
    ELSE [m EXCEPT !.stack = SetTop(m.stack,
             [frame EXCEPT !.pc = "loop",
                           !.hash = hash,
                           !.alpha = alpha,
                           !.beta = beta,
                           !.originalAlpha = alpha,
                           !.bestScore = IF frame.isMaximizing THEN -Inf ELSE Inf,
                           !.orderedMoves =
                               orderMoves(m.ai, moves, g, frame.ply, m.search.ties),
                           !.i = 1])]

\* a minimax that does not consult the transposition table
minimaxProbeFresh(m, frame, g, hash) ==
    IF frame.depth = 0 \/ g.State # Playing
    THEN minimaxLeaf(m, frame, hash, evaluatePosition(g, m.ai.color))
    ELSE minimaxMoves(m, frame, hash, frame.alpha, frame.beta, g,
                      getAllPossibleMoves(g))

\* minimax, lines 88-102: the transposition table is consulted with the hash
minimaxProbe(m, frame, g, hash) ==
    LET exists == hash \in DOMAIN m.ai.transpositionTable
        entry == m.ai.transpositionTable[hash]
        hit == exists /\ entry.depth >= frame.depth
        alpha == IF hit /\ entry.flag = 1 THEN MaxF(frame.alpha, entry.score)
                 ELSE frame.alpha
        beta == IF hit /\ entry.flag = 2 THEN MinF(frame.beta, entry.score)
                ELSE frame.beta
    IN IF hit /\ (entry.flag = 0 \/ alpha >= beta)
       THEN Return(m, entry.score)
       ELSE IF frame.depth = 0 \/ g.State # Playing
       THEN minimaxLeaf(m, frame, hash, evaluatePosition(g, m.ai.color))
       ELSE minimaxMoves(m, frame, hash, alpha, beta, g, getAllPossibleMoves(g))

\* minimax, lines 86-132: from the entry to the head of the move loop
minimaxEnter(m) ==
    minimaxProbe(m, Top(m.stack), m.mem[Top(m.stack).game],
                 hashPosition(m.mem[Top(m.stack).game]))

\* minimax, lines 137-149: a rejected move is skipped, an accepted one is
\* searched by a new activation
minimaxCall(m, frame, tried) ==
    IF tried.err # "nil"
    THEN [m EXCEPT !.mem = tried.mem,
                   !.stack = SetTop(m.stack, [frame EXCEPT !.i = @ + 1])]
    ELSE [m EXCEPT !.mem = tried.mem,
                   !.stack = Append(m.stack,
                       Frame(tried.ref, childDepth(frame.depth), ~frame.isMaximizing,
                             frame.alpha, frame.beta, frame.ply + 1))]

\* minimax, lines 134-182: one pass of the move loop up to the recursive call,
\* or the store and return after the loop
minimaxLoop(m) ==
    LET frame == Top(m.stack)
    IN IF frame.i > Len(frame.orderedMoves)
       THEN LET flag == IF frame.bestScore <= frame.originalAlpha THEN 2
                        ELSE IF frame.bestScore >= frame.beta THEN 1
                        ELSE 0
            IN Return([m EXCEPT !.ai = storeEntry(m.ai, frame.hash, frame.depth,
                                                  frame.bestScore, flag)],
                      frame.bestScore)
       ELSE minimaxCall(m, frame,
                        copyAndMove(m.mem, frame.game, frame.orderedMoves[frame.i]))

\* ai.minimax(game, depth, isMaximizing, alpha, beta, 0) is called on the
\* caller's game: its first activation
minimaxDirect(m, depth, isMaximizing, alpha, beta) ==
    [m EXCEPT !.stack = <<Frame(0, depth, isMaximizing, alpha, beta, 0)>>,
              !.search = Stopped("minimax", m.search.ties),
              !.call = [op |-> "minimax", depth |-> depth,
                        isMaximizing |-> isMaximizing,
                        alpha |-> alpha, beta |-> beta]]

\* GetBestMove without the test of the side to move
getBestMoveMovesAnyTurn(m, g, allMoves) ==
    IF Len(allMoves) = 0
    THEN [m EXCEPT !.search.pc = "done",
                   !.call = [op |-> "GetBestMove", from |-> NewPosition(0, 0),
                             to |-> NewPosition(0, 0), found |-> FALSE]]
    ELSE [m EXCEPT !.ai.killerMoves = NewAI(m.ai.color, m.ai.depth).killerMoves,
                   !.search = [Stopped("depths", m.search.ties)
                                 EXCEPT !.allMoves = allMoves, !.currentDepth = 1]]

\* GetBestMove, lines 35-49: the early returns and the set-up of the search
getBestMoveMoves(m, g, allMoves) ==
    IF g.CurrentPlayer # m.ai.color \/ Len(allMoves) = 0
    THEN [m EXCEPT !.search.pc = "done",
                   !.call = [op |-> "GetBestMove", from |-> NewPosition(0, 0),
                             to |-> NewPosition(0, 0), found |-> FALSE]]
    ELSE [m EXCEPT !.ai.killerMoves = NewAI(m.ai.color, m.ai.depth).killerMoves,
                   !.search = [Stopped("depths", m.search.ties)
                                 EXCEPT !.allMoves = allMoves, !.currentDepth = 1]]

getBestMoveEnter(m) == getBestMoveMoves(m, m.mem[0], getAllPossibleMoves(m.mem[0]))

\* GetBestMove, lines 52-57 and 81: the head of the iterative-deepening loop
getBestMoveDepth(m) ==
    IF m.search.currentDepth <= m.ai.depth
    THEN [m EXCEPT !.search.pc = "moves",
                   !.search.tempBestMove = ZeroMove,
                   !.search.tempBestScore = -Inf,
                   !.search.orderedMoves =
                       orderMoves(m.ai, m.search.allMoves, m.mem[0], 0, m.search.ties),
                   !.search.i = 1]
    ELSE [m EXCEPT !.search = Stopped("done", m.search.ties),
                   !.call = [op |-> "GetBestMove", from |-> m.search.bestMove.From,
                             to |-> m.search.bestMove.To, found |-> TRUE]]

\* a GetBestMove that searches its own moves as a maximizing node
getBestMoveCallMaximizing(m, tried) ==
    IF tried.err # "nil"
    THEN [m EXCEPT !.mem = tried.mem, !.search.i = @ + 1]
    ELSE [m EXCEPT !.mem = tried.mem,
                   !.stack = <<Frame(tried.ref, m.search.currentDepth - 1,
                                     TRUE, -Inf, Inf, 1)>>]

\* GetBestMove, lines 61-67: a rejected move is skipped, an accepted one is
\* searched by minimax
getBestMoveCall(m, tried) ==
    IF tried.err # "nil"
    THEN [m EXCEPT !.mem = tried.mem, !.search.i = @ + 1]
    ELSE [m EXCEPT !.mem = tried.mem,
                   !.stack = <<Frame(tried.ref, m.search.currentDepth - 1,
                                     FALSE, -Inf, Inf, 1)>>]

\* a GetBestMove that takes the move of the depth just completed, whatever
\* its score
getBestMoveLoopLatest(m) ==
    IF m.search.i > Len(m.search.orderedMoves)
    THEN [m EXCEPT !.search.pc = "depths",
                   !.search.bestScore = m.search.tempBestScore,
                   !.search.bestMove = m.search.tempBestMove,
                   !.search.currentDepth = nextDepth(@)]
    ELSE getBestMoveCall(m, copyAndMove(m.mem, 0, m.search.orderedMoves[m.search.i]))

\* GetBestMove, lines 59-78: one pass of the move loop up to the call of
\* minimax, or the update of the best move after the loop
getBestMoveLoop(m) ==
    IF m.search.i > Len(m.search.orderedMoves)
    THEN LET better == m.search.tempBestScore > m.search.bestScore
         IN [m EXCEPT !.search.pc = "depths",
                      !.search.bestScore = IF better THEN m.search.tempBestScore ELSE @,
                      !.search.bestMove = IF better THEN m.search.tempBestMove ELSE @,
                      !.search.currentDepth = nextDepth(@)]
    ELSE getBestMoveCall(m, copyAndMove(m.mem, 0, m.search.orderedMoves[m.search.i]))

\* the interface before Run is called: nothing has been read
NotRunning == [pc |-> "idle", reader |-> "open", input |-> <<>>]

\* the engine of a program that is not searching: the AI that ui.NewInterface
\* makes, NewAI(Black, 3), before any call of GetBestMove
EngineAtRest ==
    /\ ai = NewAI(Black, 3)
    /\ clones = <<>>
    /\ stack = <<>>
    /\ search = Stopped("idle", "kept")
    /\ ui = NotRunning

---------------------------------------------------------------------------
(* The game played from NewGame *)

\* the most moves a game's history is let grow to
MaxMoves == 5

\* the endpoint texts a caller passes to MakeMove: squares of the f, g, e
\* files and the queen's way to h4 and e1, and two texts that do not parse
Notations ==
    {Note("f", 2), Note("f", 3), Note("f", 4), Note("g", 2), Note("g", 4),
     Note("e", 7), Note("e", 5), Note("d", 8), Note("h", 4), Note("e", 1),
     Note("z", 9), <<Ord["a"], Ord["b"], Ord["c"]>>}

\* the game held in the variables
game == [Board |-> squares, CurrentPlayer |-> CurrentPlayer, State |-> State,
         MoveHistory |-> MoveHistory]

Init ==
    /\ squares = NewGame.Board
    /\ CurrentPlayer = NewGame.CurrentPlayer
    /\ State = NewGame.State
    /\ MoveHistory = NewGame.MoveHistory
    /\ call = [op |-> "NewGame"]
    /\ EngineAtRest

\* a caller calls game.MakeMove(from, to)
CallMakeMove(from, to) ==
    /\ Len(MoveHistory) < MaxMoves
    /\ \E res \in {MakeMove(game, from, to)} :
          /\ squares' = res.game.Board
          /\ CurrentPlayer' = res.game.CurrentPlayer
          /\ State' = res.game.State
          /\ MoveHistory' = res.game.MoveHistory
          /\ call' = [op |-> "MakeMove", err |-> res.err]
    /\ UNCHANGED engineVars

Next == \E from \in Notations, to \in Notations : CallMakeMove(from, to)

Spec == Init /\ [][Next]_vars

---------------------------------------------------------------------------
(* The game played from positions set up on a new game's board with       *)
(* Board.SetPiece, as TestCheckDetection and TestHasValidMovesWithCheck do: *)
(* White to move, State Playing, empty history.                            *)

\* the board holding exactly the given pieces: a set of <<row, col, piece>>
Setup(placed) ==
    [r \in Rows |-> [c \in Cols |->
        IF \E pl \in placed : pl[1] = r /\ pl[2] = c
        THEN (CHOOSE pl \in placed : pl[1] = r /\ pl[2] = c)[3]
        ELSE Nil]]

\* Black king h8 against White king f7 and queen g5: Qg6 stalemates
QueenEnding ==
    Setup({<<0, 7, NewPiece(King, Black)>>, <<1, 5, NewPiece(King, White)>>,
           <<3, 6, NewPiece(Queen, White)>>})

\* Black king g8 behind its pawns f7, g7, h7 against White rook a1 and king g1: Ra8 mates
BackRankMate ==
    Setup({<<0, 6, NewPiece(King, Black)>>, <<1, 5, NewPiece(Pawn, Black)>>,
           <<1, 6, NewPiece(Pawn, Black)>>, <<1, 7, NewPiece(Pawn, Black)>>,
           <<7, 0, NewPiece(Rook, White)>>, <<7, 6, NewPiece(King, White)>>})

\* TestCheckDetection: White king e4 attacked by the Black queen a4
CheckDetection ==
    Setup({<<4, 4, NewPiece(King, White)>>, <<4, 0, NewPiece(Queen, Black)>>})

Positions == {QueenEnding, BackRankMate, CheckDetection}

\* the endpoint texts of the calls made on these positions
PosNotations ==
    {Note("g", 5), Note("g", 6), Note("h", 8), Note("g", 8), Note("f", 7),
     Note("a", 1), Note("a", 8), Note("h", 7), Note("h", 6),
     Note("e", 4), Note("a", 4), Note("e", 5)}

InitPos ==
    /\ squares \in Positions
    /\ CurrentPlayer = NewGame.CurrentPlayer
    /\ State = NewGame.State
    /\ MoveHistory = NewGame.MoveHistory
    /\ call = [op |-> "SetPiece"]
    /\ EngineAtRest

NextPos == \E from \in PosNotations, to \in PosNotations : CallMakeMove(from, to)

SpecPos == InitPos /\ [][NextPos]_vars

---------------------------------------------------------------------------
(* The Board worked on directly, as the tests of moves.go do: a board that *)
(* is new or cleared, pieces put on it with SetPiece, then one call of     *)
(* IsValidMove, GetValidMoves or isInCheck.  These calls change nothing,   *)
(* so one call per board built covers every sequence of them.              *)

\* the most pieces put on rows 2..5 of a board
MaxPlaced == 2

Colors == {White, Black}
Kinds == {King, Queen, Rook, Bishop, Knight, Pawn, UnknownType}

\* the square any piece is put on, and the squares around it and in front of
\* the b-pawns that a pawn of either colour is put on
SubjectSquare == NewPosition(4, 1)
PawnSquares ==
    {NewPosition(5, 1), NewPosition(3, 1), NewPosition(2, 1),
     NewPosition(5, 2), NewPosition(3, 2), NewPosition(2, 2)}

\* the arguments of the SetPiece calls
Placements ==
    {<<SubjectSquare, NewPiece(k, c)>> : k \in Kinds, c \in Colors}
    \cup {<<pos, NewPiece(Pawn, c)>> : pos \in PawnSquares, c \in Colors}

Placed(b) == Cardinality({pos \in PawnSquares \cup {SubjectSquare} : GetPiece(b, pos) # Nil})

\* the moves asked about: from the subject square and the two b-pawn squares
\* to every square of the board and to three positions off it, and from a
\* position off the board
QueryFrom == {SubjectSquare, NewPosition(6, 1), NewPosition(1, 1)}
QueryTo ==
    {NewPosition(r, c) : r \in Rows, c \in Cols}
    \cup {NewPosition(4, -1), NewPosition(8, 1), NewPosition(-1, 1)}
QueryMoves ==
    {NewMove(from, to) : from \in QueryFrom, to \in QueryTo}
    \cup {NewMove(NewPosition(-1, 1), NewPosition(0, 1))}

InitBoard ==
    /\ squares \in {NewBoard, EmptyBoard}
    /\ CurrentPlayer = NewGame.CurrentPlayer
    /\ State = NewGame.State
    /\ MoveHistory = NewGame.MoveHistory
    /\ call = [op |-> "NewBoard"]
    /\ EngineAtRest

\* the board is being built as long as no call on the finished board was made
\* (those calls are recorded with their arguments)
Building == call.op \in {"NewBoard", "SetPiece"} /\ DOMAIN call = {"op"}

\* board.SetPiece(pos, piece) on an empty square of the board being built
CallSetPiece(pos, piece) ==
    /\ Building
    /\ Placed(squares) < MaxPlaced
    /\ GetPiece(squares, pos) = Nil
    /\ squares' = SetPiece(squares, pos, piece)
    /\ call' = [op |-> "SetPiece"]
    /\ UNCHANGED <<CurrentPlayer, State, MoveHistory>>
    /\ UNCHANGED engineVars

\* board.IsValidMove(move, currentPlayer)
CallIsValidMove(move, currentPlayer) ==
    /\ Building
    /\ call' = [op |-> "IsValidMove", move |-> move, currentPlayer |-> currentPlayer,
                ret |-> IsValidMove(squares, move, currentPlayer)]
    /\ UNCHANGED <<squares, CurrentPlayer, State, MoveHistory>>
    /\ UNCHANGED engineVars

\* board.GetValidMoves(pos)
CallGetValidMoves(pos) ==
    /\ Building
    /\ call' = [op |-> "GetValidMoves", pos |-> pos, ret |-> GetValidMoves(squares, pos)]
    /\ UNCHANGED <<squares, CurrentPlayer, State, MoveHistory>>
    /\ UNCHANGED engineVars

\* game.isInCheck(player) on the game that owns the board
CallIsInCheck(player) ==
    /\ Building
    /\ call' = [op |-> "isInCheck", player |-> player, ret |-> isInCheck(squares, player)]
    /\ UNCHANGED <<squares, CurrentPlayer, State, MoveHistory>>
    /\ UNCHANGED engineVars

\* positions off the board, as TestBoardGetPieceInvalid, TestBoardMovePieceInvalid
\* and TestSetPieceInvalidPosition pass them, one past each edge and corner
OffBoard ==
    {NewPosition(-1, -1), NewPosition(-1, 3), NewPosition(3, -1),
     NewPosition(8, 3), NewPosition(3, 8), NewPosition(8, 8)}

MoveFrom == {SubjectSquare, NewPosition(3, 3)} \cup OffBoard
MoveTo == {SubjectSquare, NewPosition(5, 1), NewPosition(4, 4)} \cup OffBoard

\* board.GetPiece(pos)
CallGetPiece(pos) ==
    /\ Building
    /\ call' = [op |-> "GetPiece", pos |-> pos, ret |-> GetPiece(squares, pos)]
    /\ UNCHANGED <<squares, CurrentPlayer, State, MoveHistory>>
    /\ UNCHANGED engineVars

\* board.SetPiece(pos, piece) on the finished board, at any position
CallSetPieceAt(pos, piece) ==
    /\ Building
    /\ squares' = SetPiece(squares, pos, piece)
    /\ call' = [op |-> "SetPiece", pos |-> pos, piece |-> piece]
    /\ UNCHANGED <<CurrentPlayer, State, MoveHistory>>
    /\ UNCHANGED engineVars

\* board.MovePiece(from, to)
CallMovePiece(from, to) ==
    /\ Building
    /\ LET res == MovePiece(squares, from, to)
       IN /\ squares' = res.board
          /\ call' = [op |-> "MovePiece", from |-> from, to |-> to, ret |-> res.ok]
    /\ UNCHANGED <<CurrentPlayer, State, MoveHistory>>
    /\ UNCHANGED engineVars

NextBoard ==
    \/ \E pl \in Placements : CallSetPiece(pl[1], pl[2])
    \/ \E pos \in OffBoard \cup {SubjectSquare, NewPosition(3, 3)} : CallGetPiece(pos)
    \/ \E pos \in OffBoard \cup {SubjectSquare}, piece \in {NewPiece(Pawn, White), Nil} :
          CallSetPieceAt(pos, piece)
    \/ \E from \in MoveFrom, to \in MoveTo : CallMovePiece(from, to)
    \/ \E move \in QueryMoves, currentPlayer \in Colors : CallIsValidMove(move, currentPlayer)
    \/ \E pos \in QueryFrom \cup {NewPosition(4, 4)} : CallGetValidMoves(pos)
    \/ \E player \in Colors : CallIsInCheck(player)

SpecBoard == InitBoard /\ [][NextBoard]_vars

---------------------------------------------------------------------------
(* The coordinate codec called on its own, as TestPositionConversion and   *)
(* TestPositionInvalid do: one call of FromAlgebraic or Position.String.    *)
(* A string is any sequence of bytes; every two-byte string is tried, and  *)
(* strings of the other lengths around two.                                *)

Bytes == 0..255

CodecStrings ==
    {<<x, y>> : x \in Bytes, y \in Bytes}
    \cup {<< >>, <<Ord["e"]>>, <<Ord["a"], Ord["b"], Ord["c"]>>,
          Note("a", 1) \o <<48>>, Note("e", 4) \o <<32>>, <<32>> \o Note("e", 4),
          Note("e", 2) \o Note("e", 4)}

\* Position values on the board and one step off each edge
CodecPositions == {NewPosition(r, c) : r \in -1..8, c \in -1..8}

InitCodec ==
    /\ squares = NewGame.Board
    /\ CurrentPlayer = NewGame.CurrentPlayer
    /\ State = NewGame.State
    /\ MoveHistory = NewGame.MoveHistory
    /\ call = [op |-> "NewGame"]
    /\ EngineAtRest

\* FromAlgebraic(notation)
CallFromAlgebraic(notation) ==
    /\ call.op = "NewGame"
    /\ call' = [op |-> "FromAlgebraic", notation |-> notation,
                ret |-> FromAlgebraic(notation)]
    /\ UNCHANGED <<squares, CurrentPlayer, State, MoveHistory>>
    /\ UNCHANGED engineVars

\* pos.String()
CallString(pos) ==
    /\ call.op = "NewGame"
    /\ call' = [op |-> "String", pos |-> pos, ret |-> String(pos)]
    /\ UNCHANGED <<squares, CurrentPlayer, State, MoveHistory>>
    /\ UNCHANGED engineVars

\* one call per run: the guard stands before the choice of the argument
NextCodec ==
    \/ call.op = "NewGame" /\ \E notation \in CodecStrings : CallFromAlgebraic(notation)
    \/ call.op = "NewGame" /\ \E pos \in CodecPositions : CallString(pos)

SpecCodec == InitCodec /\ [][NextCodec]_vars

---------------------------------------------------------------------------
(* The AI asked for one move, as ui.makeAIMove does: a game in a given     *)
(* position, an AI made by NewAI, one call of GetBestMove.                 *)

\* the deepest search an AI is configured with
MaxDepth == 2

\* the game after MakeMove calls with the given <<from, to>> texts
RECURSIVE playLoop(_, _, _)
playLoop(g, texts, idx) ==
    IF idx > Len(texts) THEN g
    ELSE playLoop(MakeMove(g, texts[idx][1], texts[idx][2]).game, texts, idx + 1)

Played(g, texts) == playLoop(g, texts, 1)

\* a game on a hand-built board: White to move, State Playing, empty history
GameOn(b) == [NewGame EXCEPT !.Board = b]

\* 1.e4 f6 2.Qh5+: Black is in check and g7-g6 is the only move that ends it
QueenCheck ==
    Played(NewGame, << <<Note("e", 2), Note("e", 4)>>, <<Note("f", 7), Note("f", 6)>>,
                       <<Note("d", 1), Note("h", 5)>> >>)

\* 1.f3 e5 2.g4 Qh4#: White is checkmated
FoolsMate ==
    Played(NewGame, << <<Note("f", 2), Note("f", 3)>>, <<Note("e", 7), Note("e", 5)>>,
                       <<Note("g", 2), Note("g", 4)>>, <<Note("d", 8), Note("h", 4)>> >>)

\* the queen ending after Qg5-g6: Black is stalemated
QueenStalemate == Played(GameOn(QueenEnding), << <<Note("g", 5), Note("g", 6)>> >>)

\* White's king on a1 against Black's king on e8
LoneKings ==
    GameOn(Setup({<<7, 0, NewPiece(King, White)>>, <<0, 4, NewPiece(King, Black)>>}))

\* White's only piece is a pawn on a5 that the pawn on a6 blocks
BlockedPawn ==
    GameOn(Setup({<<3, 0, NewPiece(Pawn, White)>>, <<2, 0, NewPiece(Pawn, Black)>>,
                  <<0, 4, NewPiece(King, Black)>>}))

\* 1.e4 d5: the pawns on e4 and d5 can capture each other
PawnTension ==
    Played(NewGame, << <<Note("e", 2), Note("e", 4)>>, <<Note("d", 7), Note("d", 5)>> >>)

AIPositions == {NewGame, QueenCheck, FoolsMate, QueenStalemate, LoneKings, BlockedPawn}

InitAI ==
    /\ \E g \in AIPositions :
          /\ squares = g.Board
          /\ CurrentPlayer = g.CurrentPlayer
          /\ State = g.State
          /\ MoveHistory = g.MoveHistory
    /\ call = [op |-> "NewAI"]
    /\ \E color \in Colors, depth \in 0..MaxDepth : ai = NewAI(color, depth)
    /\ ui = NotRunning
    /\ clones = <<>>
    /\ stack = <<>>
    /\ \E ties \in TieOrders : search = Stopped("idle", ties)

\* the clones some activation still holds
LiveRefs(stk) == {stk[k].game : k \in 1..Len(stk)} \ {0}

\* the variables after the step that takes the machine to `n`
Becomes(n) ==
    /\ ai' = n.ai
    /\ stack' = n.stack
    /\ search' = n.search
    /\ call' = n.call
    /\ squares' = n.mem[0].Board
    /\ CurrentPlayer' = n.mem[0].CurrentPlayer
    /\ State' = n.mem[0].State
    /\ MoveHistory' = n.mem[0].MoveHistory
    /\ clones' = [r \in LiveRefs(n.stack) |-> n.mem[r]]
    /\ ui' = ui

machine == Machine(ai, Memory(game, clones), stack, search, call)

\* ai.GetBestMove(game) is called
CallGetBestMove ==
    /\ search.pc = "idle"
    /\ \E n \in {getBestMoveEnter(machine)} : Becomes(n)

GetBestMoveDepth ==
    /\ search.pc = "depths"
    /\ \E n \in {getBestMoveDepth(machine)} : Becomes(n)

GetBestMoveLoop ==
    /\ search.pc = "moves"
    /\ stack = <<>>
    /\ \E n \in {getBestMoveLoop(machine)} : Becomes(n)

MinimaxEnter ==
    /\ stack # <<>>
    /\ Top(stack).pc = "enter"
    /\ \E n \in {minimaxEnter(machine)} : Becomes(n)

MinimaxLoop ==
    /\ stack # <<>>
    /\ Top(stack).pc = "loop"
    /\ \E n \in {minimaxLoop(machine)} : Becomes(n)

NextAI ==
    \/ CallGetBestMove
    \/ GetBestMoveDepth
    \/ GetBestMoveLoop
    \/ MinimaxEnter
    \/ MinimaxLoop

SpecAI == InitAI /\ [][NextAI]_vars

\* the call of GetBestMove has not returned: one of the five steps can be
\* taken
Running == search.pc # "done"

\* GetBestMove runs in one goroutine, so while it has not returned its next
\* step is eventually taken: weak fairness of NextAI, that is
\* []<>~ENABLED <<NextAI>>_vars \/ []<><<NextAI>>_vars, written with Running
\* for the enabling condition and, because [][NextAI]_vars makes every step
\* that changes the variables a step of NextAI, with <<TRUE>>_vars for the
\* steps taken
SpecAILive ==
    InitAI /\ [][NextAI]_vars /\ ([]<>~Running \/ []<><<TRUE>>_vars)

---------------------------------------------------------------------------
(* Properties of Game.MakeMove *)

BoardPositions == {NewPosition(r, c) : r \in Rows, c \in Cols}

Rejected(c) == c.op = "MakeMove" /\ c.err # "nil"
Accepted(c) == c.op = "MakeMove" /\ c.err = "nil"

\* C1: a MakeMove call that returns an error (an endpoint that does not
\* parse, or a move IsValidMove rejects) leaves every square, CurrentPlayer,
\* State and MoveHistory as they were
C1_RejectedMoveChangesNothing ==
    [][Rejected(call') =>
         /\ squares' = squares
         /\ CurrentPlayer' = CurrentPlayer
         /\ State' = State
         /\ MoveHistory' = MoveHistory]_vars

\* a rule violation reported after two applied moves
C1_Witness ==
    /\ Rejected(call)
    /\ call.err = "invalid move"
    /\ Len(MoveHistory) = 2

\* C2: an accepted call lengthens the history by one and flips the side to
\* move, a rejected call does neither; so from NewGame the side to move is
\* White exactly when the history length is even
C2_FlipAndHistoryPerAcceptedMove ==
    /\ [](CurrentPlayer = White <=> Len(MoveHistory) % 2 = 0)
    /\ [][/\ Accepted(call') =>
                /\ Len(MoveHistory') = Len(MoveHistory) + 1
                /\ CurrentPlayer' = Opponent(CurrentPlayer)
          /\ Rejected(call') =>
                /\ Len(MoveHistory') = Len(MoveHistory)
                /\ CurrentPlayer' = CurrentPlayer]_vars

\* a rejected call after three accepted ones: Black is still to move
C2_Witness ==
    /\ Rejected(call)
    /\ Len(MoveHistory) = 3
    /\ CurrentPlayer = Black

\* two squares hold the same piece: both empty, or the same kind and colour
SamePiece(p, q) == p.Type = q.Type /\ p.Color = q.Color

\* C3: an accepted MakeMove(from, to) puts the piece of `from` (kind and
\* colour) on `to`, empties `from`, leaves the piece (kind and colour) of
\* every other square as it was, and appends exactly the move (from, to) to
\* the history, whose earlier entries stay
C3_AcceptedMoveEffect ==
    [][\A from \in Notations, to \in Notations :
          (Accepted(call') /\ CallMakeMove(from, to)) =>
             LET f == FromAlgebraic(from).pos
                 t == FromAlgebraic(to).pos
             IN /\ GetPiece(squares, f) # Nil
                /\ SamePiece(GetPiece(squares', t), GetPiece(squares, f))
                /\ GetPiece(squares', f) = Nil
                /\ \A pos \in BoardPositions \ {f, t} :
                      SamePiece(GetPiece(squares', pos), GetPiece(squares, pos))
                /\ Len(MoveHistory') = Len(MoveHistory) + 1
                /\ MoveHistory'[Len(MoveHistory')] = NewMove(f, t)
                /\ SubSeq(MoveHistory', 1, Len(MoveHistory)) = MoveHistory]_vars

\* after 1.f3 e5 2.f4 the queen has gone d8-h4: it stands on h4, d8 is empty
C3_Witness ==
    /\ Accepted(call)
    /\ Len(MoveHistory) = 4
    /\ MoveHistory[4] = NewMove(NewPosition(0, 3), NewPosition(4, 7))
    /\ GetPiece(squares, NewPosition(4, 7)).Type = Queen
    /\ GetPiece(squares, NewPosition(0, 3)) = Nil

\* the board after relocating the content of `from` to `to`
Relocated(b, from, to) ==
    [b EXCEPT ![to.Row][to.Col] = b[from.Row][from.Col], ![from.Row][from.Col] = Nil]

\* a king of the colour is attacked: an opposing piece has a pseudo-legal move onto it
Attacked(b, color) ==
    \E k \in BoardPositions :
        /\ GetPiece(b, k).Type = King
        /\ GetPiece(b, k).Color = color
        /\ \E p \in BoardPositions :
              /\ GetPiece(b, p) # Nil
              /\ GetPiece(b, p).Color = Opponent(color)
              /\ IsValidMove(b, NewMove(p, k), Opponent(color))

\* the colour has a pseudo-legal move after which its king is not attacked
HasSafeMove(b, color) ==
    \E from \in BoardPositions :
        /\ GetPiece(b, from).Color = color
        /\ \E to \in BoardPositions :
              /\ IsValidMove(b, NewMove(from, to), color)
              /\ ~Attacked(Relocated(b, from, to), color)

Classification(b, color) ==
    CASE Attacked(b, color) /\ HasSafeMove(b, color) -> Check
      [] Attacked(b, color) /\ ~HasSafeMove(b, color) -> Checkmate
      [] ~Attacked(b, color) /\ ~HasSafeMove(b, color) -> Stalemate
      [] OTHER -> Playing

\* C4: once a move has been accepted, State is the classification of the
\* position for the side to move: Check, Checkmate, Stalemate or Playing by
\* whether its king is attacked and whether it has a move that leaves its
\* king unattacked
C4_StateClassifiesSideToMove ==
    Len(MoveHistory) > 0 => State = Classification(squares, CurrentPlayer)

\* the queen ending after Qg5-g6: Black, not attacked, has no safe move
C4_Witness ==
    /\ Accepted(call)
    /\ State = Stalemate
    /\ CurrentPlayer = Black
    /\ ~Attacked(squares, Black)

\* C10: a step that applies a pseudo-legal move leaving the mover's own king
\* attacked is accepted, and leaves a position where the side that just
\* moved has its king attacked
C10_MoveIntoCheckAccepted ==
    [][\A from \in Notations :
          LET f == FromAlgebraic(from)
          IN (f.err = "nil" /\ GetPiece(squares, f.pos).Color = CurrentPlayer) =>
                \A to \in Notations :
                   LET t == FromAlgebraic(to)
                       move == NewMove(f.pos, t.pos)
                   IN (/\ t.err = "nil"
                       /\ IsValidMove(squares, move, CurrentPlayer)
                       /\ Attacked(Relocated(squares, move.From, move.To), CurrentPlayer)
                       /\ CallMakeMove(from, to))
                      => /\ Accepted(call')
                         /\ CurrentPlayer' = Opponent(CurrentPlayer)
                         /\ Attacked(squares', CurrentPlayer)]_vars

\* 1.f3 e5 2.f4 Qh4+ 3.g4: White, in Check, has moved and is still attacked
C10_Witness ==
    /\ Accepted(call)
    /\ MoveHistory = <<NewMove(NewPosition(6, 5), NewPosition(5, 5)),
                       NewMove(NewPosition(1, 4), NewPosition(3, 4)),
                       NewMove(NewPosition(5, 5), NewPosition(4, 5)),
                       NewMove(NewPosition(0, 3), NewPosition(4, 7)),
                       NewMove(NewPosition(6, 6), NewPosition(4, 6))>>
    /\ CurrentPlayer = Black
    /\ Attacked(squares, White)

---------------------------------------------------------------------------
(* The movement rules as the design states them *)

Sign(x) == IF x > 0 THEN 1 ELSE IF x < 0 THEN -1 ELSE 0
Max(x, y) == IF x > y THEN x ELSE y

RowDelta(move) == move.To.Row - move.From.Row
ColDelta(move) == move.To.Col - move.From.Col

Straight(move) == RowDelta(move) = 0 \/ ColDelta(move) = 0
Diagonal(move) == Abs(RowDelta(move)) = Abs(ColDelta(move))

\* the positions strictly between the ends of a straight or diagonal move
Between(move) ==
    {NewPosition(move.From.Row + k * Sign(RowDelta(move)),
                 move.From.Col + k * Sign(ColDelta(move))) :
        k \in 1..(Max(Abs(RowDelta(move)), Abs(ColDelta(move))) - 1)}

\* a position reads as empty when GetPiece returns no piece
Empty(b, pos) == GetPiece(b, pos) = Nil

PathEmpty(b, move) == \A pos \in Between(move) : Empty(b, pos)

\* forward is decreasing row for White, increasing row for Black
Forward(color) == IF color = White THEN -1 ELSE 1
StartRow(color) == IF color = White THEN 6 ELSE 1

PawnStep(b, move, color) ==
    /\ ColDelta(move) = 0
    /\ RowDelta(move) = Forward(color)
    /\ Empty(b, move.To)

PawnDoubleStep(b, move, color) ==
    /\ ColDelta(move) = 0
    /\ RowDelta(move) = 2 * Forward(color)
    /\ move.From.Row = StartRow(color)
    /\ Empty(b, NewPosition(move.From.Row + Forward(color), move.From.Col))
    /\ Empty(b, move.To)

PawnCapture(b, move, color) ==
    /\ Abs(ColDelta(move)) = 1
    /\ RowDelta(move) = Forward(color)
    /\ ~Empty(b, move.To)
    /\ GetPiece(b, move.To).Color = Opponent(color)

MovementRule(b, move, piece) ==
    CASE piece.Type = Pawn ->
            \/ PawnStep(b, move, piece.Color)
            \/ PawnDoubleStep(b, move, piece.Color)
            \/ PawnCapture(b, move, piece.Color)
      [] piece.Type = Rook -> Straight(move) /\ PathEmpty(b, move)
      [] piece.Type = Bishop -> Diagonal(move) /\ PathEmpty(b, move)
      [] piece.Type = Queen -> (Straight(move) \/ Diagonal(move)) /\ PathEmpty(b, move)
      [] piece.Type = Knight ->
            {Abs(RowDelta(move)), Abs(ColDelta(move))} = {1, 2}
      [] piece.Type = King -> Abs(RowDelta(move)) <= 1 /\ Abs(ColDelta(move)) <= 1
      [] OTHER -> FALSE

---------------------------------------------------------------------------
(* Properties of the Board's move legality and of isInCheck *)

Asked(op) == call.op = op

\* C5: IsValidMove(move, side) is true exactly when `from` holds a piece of
\* colour side, `to` holds no piece of that colour, and the movement rule of
\* the piece's kind holds; a piece of an unknown kind has no valid move
C5_IsValidMoveIffOwnerDestRule ==
    Asked("IsValidMove") =>
        LET piece == GetPiece(squares, call.move.From)
            dest == GetPiece(squares, call.move.To)
        IN /\ call.ret <=>
                 /\ piece # Nil
                 /\ piece.Color = call.currentPlayer
                 /\ ~(dest # Nil /\ dest.Color = call.currentPlayer)
                 /\ MovementRule(squares, call.move, piece)
           /\ (piece # Nil /\ piece.Type \notin {King, Queen, Rook, Bishop, Knight, Pawn})
                 => ~call.ret

\* a capture found valid
C5_Witness ==
    /\ Asked("IsValidMove")
    /\ call.ret
    /\ GetPiece(squares, call.move.To) # Nil
    /\ GetPiece(squares, call.move.To).Color = Opponent(call.currentPlayer)

\* C6: a move of a pawn of the side asked for is valid exactly as a step, a
\* double step or a capture: one row forward in its column onto an empty
\* square; two rows forward in its column from the starting row with the
\* square in between and the destination empty; one row forward and one
\* column sideways onto an opposing piece.  So it never moves backward or
\* sideways and never captures straight ahead
C6_PawnMoveExactlyThreeCases ==
    (/\ Asked("IsValidMove")
     /\ GetPiece(squares, call.move.From).Type = Pawn
     /\ GetPiece(squares, call.move.From).Color = call.currentPlayer) =>
        LET color == call.currentPlayer
        IN /\ call.ret <=>
                 \/ PawnStep(squares, call.move, color)
                 \/ PawnDoubleStep(squares, call.move, color)
                 \/ PawnCapture(squares, call.move, color)
           /\ call.ret => RowDelta(call.move) * Forward(color) > 0
           /\ (call.ret /\ ColDelta(call.move) = 0) => Empty(squares, call.move.To)

\* a double step refused because the square in between is occupied, the
\* destination being empty
C6_Witness ==
    /\ Asked("IsValidMove")
    /\ GetPiece(squares, call.move.From).Type = Pawn
    /\ GetPiece(squares, call.move.From).Color = call.currentPlayer
    /\ ColDelta(call.move) = 0
    /\ RowDelta(call.move) = 2 * Forward(call.currentPlayer)
    /\ call.move.From.Row = StartRow(call.currentPlayer)
    /\ Empty(squares, call.move.To)
    /\ ~call.ret

Sliders == {Rook, Bishop, Queen}

\* C7: a valid move of a rook, bishop or queen runs along a row or column
\* (rook), along a diagonal (bishop) or either (queen), and every square
\* strictly between `from` and `to` is empty
C7_SlidersNeedLineAndEmptyPath ==
    (/\ Asked("IsValidMove")
     /\ GetPiece(squares, call.move.From).Type \in Sliders
     /\ call.ret) =>
        LET kind == GetPiece(squares, call.move.From).Type
        IN /\ kind = Rook => Straight(call.move)
           /\ kind = Bishop => Diagonal(call.move)
           /\ kind = Queen => (Straight(call.move) \/ Diagonal(call.move))
           /\ \A pos \in Between(call.move) : GetPiece(squares, pos) = Nil

\* a rook or queen of the side asked for, refused a move along its line to
\* an empty square because a piece stands in between
C7_Witness ==
    /\ Asked("IsValidMove")
    /\ GetPiece(squares, call.move.From).Type \in {Rook, Queen}
    /\ GetPiece(squares, call.move.From).Color = call.currentPlayer
    /\ Straight(call.move)
    /\ IsValid(call.move.To)
    /\ Empty(squares, call.move.To)
    /\ \E pos \in Between(call.move) : ~Empty(squares, pos)
    /\ ~call.ret

\* the elements of a sequence
Range(seq) == {seq[i] : i \in 1..Len(seq)}

\* C8: GetValidMoves(pos) returns, each once, exactly the moves (pos, to)
\* over the 64 squares `to` for which IsValidMove holds for the colour of
\* the piece on pos, whoever is to move and whether or not the move leaves
\* that colour's king attacked; for an empty square it returns no move
C8_GetValidMovesIsPseudoLegalSet ==
    Asked("GetValidMoves") =>
        LET piece == GetPiece(squares, call.pos)
        IN IF piece = Nil THEN call.ret = <<>>
           ELSE /\ Range(call.ret) =
                      {NewMove(call.pos, to) : to \in
                          {t \in BoardPositions :
                              IsValidMove(squares, NewMove(call.pos, t), piece.Color)}}
                /\ Cardinality(Range(call.ret)) = Len(call.ret)

\* with White to move, the moves returned for a Black king include one onto
\* a square where that king is attacked
C8_Witness ==
    /\ Asked("GetValidMoves")
    /\ CurrentPlayer = White
    /\ GetPiece(squares, call.pos).Type = King
    /\ GetPiece(squares, call.pos).Color = Black
    /\ \E i \in 1..Len(call.ret) :
          Attacked(Relocated(squares, call.ret[i].From, call.ret[i].To), Black)

KingSquares(b, color) ==
    {pos \in BoardPositions : GetPiece(b, pos).Type = King /\ GetPiece(b, pos).Color = color}

\* C9: isInCheck(colour) is false when the board holds no king of the
\* colour; when it holds one, isInCheck is true exactly when a piece of the
\* opposing colour has a valid move, for the opposing colour, onto the
\* king's square
C9_IsInCheckIffKingAttacked ==
    Asked("isInCheck") =>
        /\ KingSquares(squares, call.player) = {} => ~call.ret
        /\ \A k \in KingSquares(squares, call.player) :
              KingSquares(squares, call.player) = {k} =>
                 (call.ret <=>
                     \E pos \in BoardPositions :
                        /\ GetPiece(squares, pos) # Nil
                        /\ GetPiece(squares, pos).Color = Opponent(call.player)
                        /\ IsValidMove(squares, NewMove(pos, k), Opponent(call.player)))

\* the only king of its colour found in check
C9_Witness ==
    /\ Asked("isInCheck")
    /\ Cardinality(KingSquares(squares, call.player)) = 1
    /\ call.ret

---------------------------------------------------------------------------
(* Properties of the coordinate codec *)

Files == 97..104     \* 'a'..'h'
Ranks == 49..56      \* '1'..'8'

\* C17: for every row and column in 0..7, FromAlgebraic of the position's
\* String succeeds and returns that position; and for every string that
\* FromAlgebraic accepts, the String of the returned position is that string.
C17_CodecRoundTrip ==
    /\ Asked("String") /\ IsValid(call.pos)
          => FromAlgebraic(call.ret) = [pos |-> call.pos, err |-> "nil"]
    /\ Asked("FromAlgebraic") /\ call.ret.err = "nil"
          => String(call.ret.pos) = call.notation

C17_Witness ==
    /\ Asked("FromAlgebraic")
    /\ call.notation = Note("h", 8)
    /\ call.ret = [pos |-> NewPosition(0, 7), err |-> "nil"]

\* C18: FromAlgebraic returns an error for every string that is not exactly
\* two bytes long, or whose first byte is outside 'a'..'h', or whose second
\* byte is outside '1'..'8' (bytes below 'a' or below '0' included, where the
\* byte subtraction wraps); it succeeds on exactly the 64 strings a1..h8.
C18_FromAlgebraicAcceptsExactlyA1toH8 ==
    Asked("FromAlgebraic") =>
        LET s == call.notation
        IN /\ call.ret.err # "nil"
                <=> (Len(s) # 2 \/ s[1] \notin Files \/ s[2] \notin Ranks)
           /\ call.ret.err = "nil"
                => \E r \in Rows, c \in Cols :
                      /\ s = <<97 + c, 48 + (8 - r)>>
                      /\ call.ret.pos = NewPosition(r, c)

\* "A/" is rejected: both subtractions wrap below zero
C18_Witness ==
    /\ Asked("FromAlgebraic")
    /\ call.notation = <<Ord["A"], 47>>
    /\ call.ret.err = "invalid position"

---------------------------------------------------------------------------
(* Properties of the Board's accessors *)

\* C19: Board.GetPiece on an off-board position returns the empty result;
\* SetPiece on an off-board position changes nothing; MovePiece returns false
\* and leaves the board unchanged when `from` or `to` is off the board or
\* `from` is empty.  The grid itself is a function on 0..7 x 0..7 in every
\* state, so no call reads or writes an index outside it.
C19_OffBoardAccessIsInert ==
    /\ [](/\ DOMAIN squares = Rows
          /\ \A r \in Rows : DOMAIN squares[r] = Cols
          /\ Asked("GetPiece") /\ ~IsValid(call.pos) => call.ret = Nil)
    /\ [][/\ call'.op = "SetPiece" /\ DOMAIN call' # {"op"} /\ ~IsValid(call'.pos)
              => squares' = squares
          /\ call'.op = "MovePiece"
                /\ (~IsValid(call'.from) \/ ~IsValid(call'.to)
                      \/ GetPiece(squares, call'.from) = Nil)
              => ~call'.ret /\ squares' = squares]_vars

\* a piece stands on `from` and `to` is off the board
C19_Witness ==
    /\ Asked("MovePiece")
    /\ call.from = SubjectSquare
    /\ GetPiece(squares, SubjectSquare) # Nil
    /\ ~IsValid(call.to)
    /\ ~call.ret

---------------------------------------------------------------------------
(* Properties of the end of the game *)

\* C20: game over is absorbing: once State is Checkmate or Stalemate, every
\* further MakeMove call is rejected, and IsGameOver never goes from true
\* back to false.
C20_GameOverIsAbsorbing ==
    [][IsGameOver(State)
         => /\ call'.op = "MakeMove" => Rejected(call')
            /\ IsGameOver(State')]_vars

---------------------------------------------------------------------------
(* Properties of AI.GetBestMove *)

\* the search has returned to its caller
Returned == search.pc = "done" /\ call.op = "GetBestMove"

\* the pseudo-legal moves of the colour in the caller's game: the piece on
\* `from` has the colour and IsValidMove accepts the move
PseudoLegal(color) ==
    {mv \in {NewMove(from, to) : from \in BoardPositions, to \in BoardPositions} :
        /\ GetPiece(squares, mv.From) # Nil
        /\ GetPiece(squares, mv.From).Color = color
        /\ IsValidMove(squares, mv, color)}

\* C11: GetBestMove leaves the caller's game unchanged: no step of the
\* search, from the call to the return, changes the board (the pieces'
\* HasMoved flags included), the side to move, the state or the move history
\* of the game it was given; all exploration happens on clones.
C11_GetBestMoveLeavesGameUnchanged ==
    [][/\ squares' = squares
       /\ CurrentPlayer' = CurrentPlayer
       /\ State' = State
       /\ MoveHistory' = MoveHistory]_vars

\* a search deeper than one ply has returned a move it tried on clones
C11_Witness ==
    /\ Returned
    /\ call.found
    /\ call.from # call.to
    /\ ai.depth > 1
    /\ DOMAIN ai.transpositionTable # {}

\* C12: GetBestMove returns found = false exactly when it is not the AI
\* colour's turn or that colour has zero pseudo-legal moves, and every call
\* returns (none stops in a panic).
C12_NotFoundExactlyWhenNoTurnOrNoMoves ==
    Returned =>
        /\ DOMAIN call = {"op", "from", "to", "found"}
        /\ call.found \in BOOLEAN
        /\ ~call.found <=> (CurrentPlayer # ai.color \/ PseudoLegal(ai.color) = {})

\* it is the AI colour's turn, it has no pseudo-legal move, and GetBestMove
\* has returned found = false
C12_Witness ==
    /\ Returned
    /\ CurrentPlayer = ai.color
    /\ PseudoLegal(ai.color) = {}
    /\ ~call.found

\* C13: GetBestMove returns found = false when the engine's colour is to
\* move and that side is checkmated or stalemated.
C13_NotFoundWhenMatedOrStalemated ==
    Returned /\ CurrentPlayer = ai.color /\ State \in {Checkmate, Stalemate}
        => ~call.found

\* C14: whenever GetBestMove returns found = true, the returned (from, to)
\* is one of the pseudo-legal moves of the AI's colour in the given game, at
\* every configured depth.
C14_FoundMoveIsPseudoLegal ==
    Returned /\ call.found
        => NewMove(call.from, call.to) \in Range(getAllPossibleMovesForColor(game, ai.color))

\* the legal moves of the colour in the caller's game: the pseudo-legal
\* moves after which its own king is not attacked
LegalMoves(color) ==
    {mv \in PseudoLegal(color) : ~Attacked(Relocated(squares, mv.From, mv.To), color)}

\* C15: when the AI's colour is to move and has exactly one legal move,
\* GetBestMove returns found = true with that move, at every configured depth.
C15_OnlyLegalMoveIsReturned ==
    Returned /\ CurrentPlayer = ai.color /\ Cardinality(LegalMoves(ai.color)) = 1
        => call.found /\ NewMove(call.from, call.to) \in LegalMoves(ai.color)

\* the depth of the activation of minimax at position k of the stack, as its
\* caller fixes it: GetBestMove passes currentDepth - 1, minimax one less
\* than its own
CallerDepth(k) == IF k = 1 THEN search.currentDepth - 1 ELSE stack[k - 1].depth - 1

\* C16: GetBestMove always terminates and returns to its caller, for every
\* position and configured depth: every recursive minimax call is made with
\* the depth decreased by exactly one, no activation scans moves at depth 0,
\* every move loop runs over a finite list, and the call eventually returns.
C16_GetBestMoveTerminates ==
    /\ [](/\ \A k \in 1..Len(stack) :
                /\ stack[k].depth = CallerDepth(k)
                /\ stack[k].depth >= 0
                /\ stack[k].pc = "loop"
                      => /\ stack[k].depth > 0
                         /\ stack[k].i \in 1..(Len(stack[k].orderedMoves) + 1)
          /\ search.pc = "moves" => search.i \in 1..(Len(search.orderedMoves) + 1)
          /\ search.pc \in {"idle", "depths", "moves", "done"}
          /\ stack # <<>> => search.pc = "moves" /\ Top(stack).pc \in {"enter", "loop"})
    /\ <>Returned

\* a search of two plies or more has returned after minimax recursed
C16_Witness ==
    /\ Returned
    /\ call.found
    /\ ai.depth > 1
    /\ \E h \in DOMAIN ai.transpositionTable : ai.transpositionTable[h].depth > 0

---------------------------------------------------------------------------
(* The game played from the initial position along the lines in which a   *)
(* queen gives check on h4: MakeMove is called with the endpoint texts of  *)
(* a few moves of both sides.                                             *)

\* the longest game played along these lines, in accepted moves
MaxPlies == 6

\* the <<from, to>> texts of the calls
LineMoves ==
    { <<Note("f", 2), Note("f", 3)>>, <<Note("f", 3), Note("f", 4)>>,
      <<Note("g", 2), Note("g", 4)>>, <<Note("g", 2), Note("g", 3)>>,
      <<Note("e", 7), Note("e", 5)>>, <<Note("e", 5), Note("f", 4)>>,
      <<Note("d", 8), Note("h", 4)>>, <<Note("h", 4), Note("e", 1)>>,
      <<Note("h", 4), Note("g", 3)>>, <<Note("e", 1), Note("f", 2)>>,
      <<Note("d", 7), Note("d", 6)>> }

\* a caller calls game.MakeMove with the texts of one of the moves
CallLineMove(mv) ==
    /\ Len(MoveHistory) < MaxPlies
    /\ \E res \in {MakeMove(game, mv[1], mv[2])} :
          /\ squares' = res.game.Board
          /\ CurrentPlayer' = res.game.CurrentPlayer
          /\ State' = res.game.State
          /\ MoveHistory' = res.game.MoveHistory
          /\ call' = [op |-> "MakeMove", err |-> res.err]
    /\ UNCHANGED engineVars

NextLine == \E mv \in LineMoves : CallLineMove(mv)

SpecLine == Init /\ [][NextLine]_vars

---------------------------------------------------------------------------
\* the squares of a board that hold a piece of the kind and colour
Holding(b, type, color) ==
    {pos \in BoardPositions :
        b[pos.Row][pos.Col].Type = type /\ b[pos.Row][pos.Col].Color = color}

\* C21: after any sequence of accepted MakeMove calls from the initial
\* position the board holds exactly one White king and exactly one Black
\* king: no king is ever captured
C21_OneKingOfEachColour ==
    /\ Cardinality(Holding(squares, King, White)) = 1
    /\ Cardinality(Holding(squares, King, Black)) = 1

---------------------------------------------------------------------------
(* hasValidMoves called on queen endings set up with Board.SetPiece, as    *)
(* TestHasValidMovesWithCheck calls it: Black king h8, White king f7 and a *)
(* White queen on any other square.                                        *)

\* the boards of the queen endings
TrialBoards ==
    {Setup({<<0, 7, NewPiece(King, Black)>>, <<1, 5, NewPiece(King, White)>>,
            <<q.Row, q.Col, NewPiece(Queen, White)>>}) :
        q \in {pos \in {NewPosition(r, c) : r \in Rows, c \in Cols} :
                  pos # NewPosition(0, 7) /\ pos # NewPosition(1, 5)}}

InitTrial ==
    /\ squares \in TrialBoards
    /\ CurrentPlayer = NewGame.CurrentPlayer
    /\ State = NewGame.State
    /\ MoveHistory = NewGame.MoveHistory
    /\ call = [op |-> "SetPiece"]
    /\ EngineAtRest

\* game.hasValidMoves(player) is called
CallHasValidMoves(player) ==
    /\ call.op = "SetPiece"
    /\ LET has == hasValidMoves(squares, player)
       IN /\ squares' = has.board
          /\ call' = [op |-> "hasValidMoves", player |-> player, ret |-> has.found]
    /\ UNCHANGED <<CurrentPlayer, State, MoveHistory>>
    /\ UNCHANGED engineVars

NextTrial == \E player \in Colors : CallHasValidMoves(player)

SpecTrial == InitTrial /\ [][NextTrial]_vars

---------------------------------------------------------------------------
\* C22: hasValidMoves leaves every square holding the same piece (kind and
\* colour) as before the call, whether it returns true or false and whether
\* or not a trial move captured a piece
C22_HasValidMovesRestoresBoard ==
    [][call'.op = "hasValidMoves" =>
          \A pos \in BoardPositions :
              SamePiece(GetPiece(squares', pos), GetPiece(squares, pos))]_vars

\* the player has a move that captures a piece
HasCapture(b, player) ==
    \E from \in BoardPositions, to \in BoardPositions :
        /\ GetPiece(b, from) # Nil
        /\ GetPiece(b, from).Color = player
        /\ GetPiece(b, to) # Nil
        /\ IsValidMove(b, NewMove(from, to), player)

\* hasValidMoves has returned false after trying every move of a player who
\* can capture: the king in the corner taking the queen that mates it
C22_Witness ==
    /\ call.op = "hasValidMoves"
    /\ call.ret = FALSE
    /\ HasCapture(squares, call.player)

\* how many pieces of the kind and colour the board holds
Count(b, type, color) == Cardinality(Holding(b, type, color))

\* C23: an accepted MakeMove creates no piece and changes no piece's kind or
\* colour: for every kind and colour the board holds as many pieces as
\* before, except one fewer of the kind and colour of the piece that stood
\* on the destination square, and such a piece is of the opponent's colour
C23_AcceptedMoveKeepsPieces ==
    [][Accepted(call') =>
          LET to == MoveHistory'[Len(MoveHistory')].To
              taken == GetPiece(squares, to)
          IN /\ \A type \in Kinds, color \in Colors :
                    Count(squares', type, color) =
                        Count(squares, type, color)
                        - (IF taken # Nil /\ taken.Type = type /\ taken.Color = color
                           THEN 1 ELSE 0)
             /\ taken # Nil => taken.Color = Opponent(CurrentPlayer)]_vars

\* an accepted move has captured a piece
C23_Witness ==
    /\ Accepted(call)
    /\ Cardinality({pos \in BoardPositions : GetPiece(squares, pos) # Nil}) < 32

---------------------------------------------------------------------------
(* minimax called by itself on the caller's game: an AI made by NewAI, a   *)
(* call of minimax at ply 0 with a depth and a window, and then calls at   *)
(* smaller depths on the same AI, whose tables keep what the earlier calls *)
(* stored.                                                                 *)

\* the deepest search minimax is called with
MaxDirect == 1

\* 1.e4 Nc6: White to move with both knights still at home
KnightDefence ==
    Played(NewGame, << <<Note("e", 2), Note("e", 4)>>, <<Note("b", 8), Note("c", 6)>> >>)

MinimaxPositions == {NewGame, QueenCheck, PawnTension, KnightDefence}

\* the windows <<alpha, beta>> of the calls: the full window and the two
\* halves around the even score
Windows == {<<-Inf, Inf>>, <<-Inf, 0>>, <<0, Inf>>}

InitMinimax ==
    /\ \E g \in MinimaxPositions :
          /\ squares = g.Board
          /\ CurrentPlayer = g.CurrentPlayer
          /\ State = g.State
          /\ MoveHistory = g.MoveHistory
    /\ call = [op |-> "NewAI"]
    /\ \E color \in Colors : ai = NewAI(color, MaxDirect)
    /\ ui = NotRunning
    /\ clones = <<>>
    /\ stack = <<>>
    /\ \E ties \in TieOrders : search = Stopped("idle", ties)

\* ai.minimax(game, depth, isMaximizing, alpha, beta, 0) is called on a new AI
CallMinimax(depth, isMaximizing, window) ==
    /\ search.pc = "idle"
    /\ \E n \in {minimaxDirect(machine, depth, isMaximizing, window[1], window[2])} :
          Becomes(n)

\* minimax is called again on the same AI and game, at a smaller depth, after
\* an earlier call has returned
CallMinimaxAgain(depth, isMaximizing, window) ==
    /\ search.pc = "done"
    /\ call.op = "minimax"
    /\ depth < call.depth
    /\ \E n \in {minimaxDirect(machine, depth, isMaximizing, window[1], window[2])} :
          Becomes(n)

\* one call of minimax on a new AI
NextFresh ==
    \/ \E depth \in 0..MaxDirect, isMaximizing \in BOOLEAN, window \in Windows :
          CallMinimax(depth, isMaximizing, window)
    \/ MinimaxEnter
    \/ MinimaxLoop

SpecFresh == InitMinimax /\ [][NextFresh]_vars

NextMinimax ==
    \/ \E depth \in 0..MaxDirect, isMaximizing \in BOOLEAN, window \in Windows :
          CallMinimax(depth, isMaximizing, window)
    \/ \E depth \in 0..MaxDirect, isMaximizing \in BOOLEAN, window \in Windows :
          CallMinimaxAgain(depth, isMaximizing, window)
    \/ MinimaxEnter
    \/ MinimaxLoop

SpecMinimax == InitMinimax /\ [][NextMinimax]_vars

---------------------------------------------------------------------------
\* an activation of minimax stands at its entry
Entered == stack # <<>> /\ Top(stack).pc = "enter"

\* the game the top activation of minimax was called with
NodeGame == Memory(game, clones)[Top(stack).game]

\* the step in which the top activation stores and returns the static
\* evaluation of its position without looking at its moves
StaticLeaf ==
    /\ Entered
    /\ Len(stack') < Len(stack)
    /\ ai'.transpositionTable # ai.transpositionTable

\* C24: minimax returns the static evaluation without expanding children only
\* when depth is 0 or the state is Checkmate, Stalemate or Draw: a position in
\* Check with depth left is searched further like a Playing position
C24_StaticLeafOnlyAtDepthZeroOrGameOver ==
    [][StaticLeaf =>
          \/ Top(stack).depth = 0
          \/ NodeGame.State \in {Checkmate, Stalemate, Draw}]_vars

---------------------------------------------------------------------------
\* the top activation of minimax has scanned its moves and is about to store
\* its entry and return
Scanned ==
    /\ stack # <<>>
    /\ Top(stack).pc = "loop"
    /\ Top(stack).i > Len(Top(stack).orderedMoves)

\* the alpha and beta the top activation was called with: the arguments of
\* the call of minimax, or the window of the activation that called it
StartAlpha ==
    IF Len(stack) = 1 THEN call.alpha ELSE stack[Len(stack) - 1].alpha

StartBeta ==
    IF Len(stack) = 1 THEN call.beta ELSE stack[Len(stack) - 1].beta

\* C25: when minimax finishes a node by scanning its moves, the entry it
\* stores has the node's depth, the returned score and the flag exact (0) if
\* the score lies strictly between the alpha and beta the node started with,
\* upper bound (2) if the score did not exceed that alpha, lower bound (1) if
\* it reached that beta, for maximizing and minimizing nodes alike
C25_StoredFlagFollowsStartWindow ==
    [][Scanned /\ call.op = "minimax" =>
          LET frame == Top(stack)
              score == frame.bestScore
              flag == IF score <= StartAlpha THEN 2
                      ELSE IF score >= StartBeta THEN 1
                      ELSE 0
          IN ai'.transpositionTable[frame.hash] =
                 [depth |-> frame.depth, score |-> score, flag |-> flag]]_vars

---------------------------------------------------------------------------
\* the greatest and the least of a set of scores, -Inf and Inf when it is empty
Greatest(scores) == CHOOSE x \in scores \cup {-Inf} : \A y \in scores : x >= y
Least(scores) == CHOOSE x \in scores \cup {Inf} : \A y \in scores : x <= y

\* plain exhaustive minimax to the depth: minimax's leaf rule, static
\* evaluation, mate and stalemate scores and way of making a move on a copy,
\* without window, tables or move ordering
RECURSIVE plainMinimax(_, _, _, _, _)
plainMinimax(g, depth, isMaximizing, color, ply) ==
    IF depth = 0 \/ g.State # Playing THEN evaluatePosition(g, color)
    ELSE LET moves == getAllPossibleMoves(g)
             tried == [i \in 1..Len(moves) |->
                          MakeMove(copiedGame(g), String(moves[i].From),
                                   String(moves[i].To))] \o <<>>
             scores == {plainMinimax(tried[i].game, depth - 1, ~isMaximizing, color,
                                     ply + 1) :
                           i \in {j \in 1..Len(moves) : tried[j].err = "nil"}}
         IN IF Len(moves) = 0
            THEN IF isInCheck(g.Board, g.CurrentPlayer)
                 THEN IF isMaximizing THEN -MateScore + PlyScore(ply)
                      ELSE MateScore - PlyScore(ply)
                 ELSE 0
            ELSE IF isMaximizing THEN Greatest(scores) ELSE Least(scores)

\* a call of minimax with the full window has returned
FullWindowReturned ==
    /\ search.pc = "done"
    /\ call.op = "minimax"
    /\ call.alpha = -Inf
    /\ call.beta = Inf

\* C27: starting with empty tables, the score minimax returns for a position
\* at depth d with the window (-Inf, Inf) is the value of plain exhaustive
\* minimax of the position to depth d
C27_MinimaxEqualsPlainMinimax ==
    FullWindowReturned =>
        call.ret = plainMinimax(game, call.depth, call.isMaximizing, ai.color, 0)

---------------------------------------------------------------------------
\* the transposition entry under the hash of the top activation's position
NodeEntry == ai.transpositionTable[hashPosition(NodeGame)]

\* a call of minimax stands at its entry and is answered from a stored entry
\* whose depth is at least the requested depth: the entry is exact, or it
\* closes the window of the call
AnsweredFromEntry ==
    /\ Entered
    /\ Len(stack) = 1
    /\ call.op = "minimax"
    /\ hashPosition(NodeGame) \in DOMAIN ai.transpositionTable
    /\ NodeEntry.depth >= Top(stack).depth
    /\ \/ NodeEntry.flag = 0
       \/ NodeEntry.flag = 1 /\ MaxF(Top(stack).alpha, NodeEntry.score) >= Top(stack).beta
       \/ NodeEntry.flag = 2 /\ Top(stack).alpha >= MinF(Top(stack).beta, NodeEntry.score)

---------------------------------------------------------------------------
\* the activation that called the top activation, and the move it is trying
Caller == stack[Len(stack) - 1]
CallerMove == Caller.orderedMoves[Caller.i]

\* the top activation returns to the activation that called it, whose window
\* the returned score closes: the beta <= alpha cutoff
Cutoff ==
    /\ Len(stack) >= 2
    /\ Len(stack') = Len(stack) - 1
    /\ Top(stack').beta <= Top(stack').alpha

\* the history weight of a move, 0 for a move the table does not hold
Weight(a, move) == IF move \in DOMAIN a.historyTable THEN a.historyTable[move] ELSE 0

\* C28: at a beta <= alpha cutoff the killer slots of the ply and the history
\* weight of the cutting move are updated only when the cutting move is not a
\* capture (the move goes to slot 0, the previous slot 0 to slot 1, depth
\* squared is added to the move's weight); on a cutoff by a capture neither
\* table changes; in both cases no further move of the node is examined
C28_CutoffUpdatesTablesUnlessCapture ==
    [][Cutoff =>
          /\ Top(stack').i > Len(Caller.orderedMoves)
          /\ IF isCapture(CallerMove, Memory(game, clones)[Caller.game])
             THEN /\ ai'.killerMoves = ai.killerMoves
                  /\ ai'.historyTable = ai.historyTable
             ELSE /\ ai'.killerMoves =
                        [ai.killerMoves EXCEPT ![Caller.ply + 1] =
                            <<CallerMove, ai.killerMoves[Caller.ply + 1][1]>>]
                  /\ Weight(ai', CallerMove) =
                        Weight(ai, CallerMove) + Caller.depth * Caller.depth]_vars

---------------------------------------------------------------------------
(* The AI asked for one move in openings where a deeper search scores the  *)
(* best move lower than a shallower one.                                   *)

\* 1.Nc3 d5: White's best score at depth 2 is below its best score at depth 1
KnightOpening ==
    Played(NewGame, << <<Note("b", 1), Note("c", 3)>>, <<Note("d", 7), Note("d", 5)>> >>)

DeepenPositions == {NewGame, KnightOpening}

InitDeepen ==
    /\ \E g \in DeepenPositions :
          /\ squares = g.Board
          /\ CurrentPlayer = g.CurrentPlayer
          /\ State = g.State
          /\ MoveHistory = g.MoveHistory
    /\ call = [op |-> "NewAI"]
    /\ \E color \in Colors, depth \in 0..MaxDepth : ai = NewAI(color, depth)
    /\ ui = NotRunning
    /\ clones = <<>>
    /\ stack = <<>>
    /\ \E ties \in TieOrders : search = Stopped("idle", ties)

SpecDeepen == InitDeepen /\ [][NextAI]_vars

---------------------------------------------------------------------------
\* GetBestMove has tried every move at the current depth
DepthDone ==
    /\ search.pc = "moves"
    /\ stack = <<>>
    /\ search.i > Len(search.orderedMoves)

\* C29: GetBestMove runs the depths 1 to ai.depth in increasing order; after
\* a depth it replaces the best move only if the depth's best score is
\* strictly greater than the best score of every shallower depth, and
\* otherwise keeps the move of the shallower depth; it returns the move kept
\* after the last depth
C29_DeeperMoveOnlyIfStrictlyBetter ==
    [][/\ search.pc = "idle" /\ search'.pc = "depths" =>
              search'.currentDepth = 1 /\ search'.bestScore = -Inf
       /\ search.pc = "depths" /\ search'.pc = "moves" =>
              search.currentDepth <= ai.depth /\ search'.currentDepth = search.currentDepth
       /\ DepthDone =>
              /\ search'.pc = "depths"
              /\ search'.currentDepth = search.currentDepth + 1
              /\ search'.bestScore = MaxF(search.bestScore, search.tempBestScore)
              /\ search'.bestMove = IF search.tempBestScore > search.bestScore
                                    THEN search.tempBestMove
                                    ELSE search.bestMove
       /\ search.pc = "depths" /\ search'.pc = "done" =>
              /\ search.currentDepth = ai.depth + 1
              /\ call'.from = search.bestMove.From
              /\ call'.to = search.bestMove.To]_vars

\* the second depth has been completed with a best score below the first
\* depth's, whose move is kept
C29_Witness ==
    /\ search.pc = "depths"
    /\ search.currentDepth = 3
    /\ search.tempBestScore < search.bestScore
    /\ search.bestMove # ZeroMove

---------------------------------------------------------------------------
\* how often a move occurs in a list of moves
Occurrences(moves, move) == Cardinality({i \in 1..Len(moves) : moves[i] = move})

\* `output` holds every move of `input` exactly as often as `input` does
IsPermutation(input, output) ==
    /\ Len(output) = Len(input)
    /\ \A i \in 1..Len(input) :
           Occurrences(output, input[i]) = Occurrences(input, input[i])

\* `output` is by non-increasing ordering score
ByScore(output, g, ply) ==
    \A i \in 1..Len(output), j \in 1..Len(output) :
        i < j => moveScore(ai, output[i], g, ply) >= moveScore(ai, output[j], g, ply)

\* the place of a move in a list that holds it
Place(moves, move) == CHOOSE i \in 1..Len(moves) : moves[i] = move

\* moves of equal ordering score stand in `output` in the order of `input`
TiesInInputOrder(input, output, g, ply) ==
    \A i \in 1..Len(output), j \in 1..Len(output) :
        i < j /\ moveScore(ai, output[i], g, ply) = moveScore(ai, output[j], g, ply)
            => Place(input, output[i]) < Place(input, output[j])

\* GetBestMove orders its moves for the depth it starts
OrdersAtRoot == search.pc = "depths" /\ search'.pc = "moves"

\* an activation of minimax orders the moves of its position
OrdersAtNode == Entered /\ Len(stack') = Len(stack) /\ Top(stack').pc = "loop"

\* C30 as stated: orderMoves returns a permutation of its input by
\* non-increasing ordering score, and moves of equal score keep their input
\* order
C30_OrderedAndStable ==
    [][/\ OrdersAtRoot =>
              /\ IsPermutation(search.allMoves, search'.orderedMoves)
              /\ ByScore(search'.orderedMoves, game, 0)
              /\ TiesInInputOrder(search.allMoves, search'.orderedMoves, game, 0)
       /\ OrdersAtNode =>
              /\ IsPermutation(getAllPossibleMoves(NodeGame), Top(stack').orderedMoves)
              /\ ByScore(Top(stack').orderedMoves, NodeGame, Top(stack).ply)
              /\ TiesInInputOrder(getAllPossibleMoves(NodeGame), Top(stack').orderedMoves,
                                  NodeGame, Top(stack).ply)]_vars

\* C30, amended: orderMoves returns a permutation of its input (every input
\* move exactly once, none added or lost) by non-increasing ordering score;
\* the order of moves of equal score is whatever sort.Slice leaves
C30_OrderedPermutation ==
    [][/\ OrdersAtRoot =>
              /\ IsPermutation(search.allMoves, search'.orderedMoves)
              /\ ByScore(search'.orderedMoves, game, 0)
       /\ OrdersAtNode =>
              /\ IsPermutation(getAllPossibleMoves(NodeGame), Top(stack').orderedMoves)
              /\ ByScore(Top(stack').orderedMoves, NodeGame, Top(stack).ply)]_vars

\* an activation of minimax stands at the head of its move loop with moves
\* that orderMoves has put in another order than they were generated in
C30_Witness ==
    /\ stack # <<>>
    /\ Top(stack).pc = "loop"
    /\ Top(stack).i = 1
    /\ Len(Top(stack).orderedMoves) >= 2
    /\ Top(stack).orderedMoves # getAllPossibleMoves(NodeGame)

---------------------------------------------------------------------------
\* the row on which a colour's pieces start: setupInitialPosition puts
\* White's on row 7 and Black's on row 0
OwnBackRank(color) == IF color = White THEN 7 ELSE 0

\* the move is one of a knight or bishop standing on its own back rank
DevelopingMove(move, g) ==
    LET piece == GetPiece(g.Board, move.From)
    IN /\ piece # Nil
       /\ piece.Type \in {Knight, Bishop}
       /\ move.From.Row = OwnBackRank(piece.Color)

\* every move of the list has the development bonus exactly when it is a
\* developing move
BonusForDevelopment(moves, g) ==
    \A i \in 1..Len(moves) :
        developmentBonus(moves[i], g) = (IF DevelopingMove(moves[i], g) THEN 30 ELSE 0)

\* C31: whenever GetBestMove or minimax orders moves, the +30 development
\* bonus is part of a move's ordering score exactly when the move is one of a
\* knight or bishop standing on its own colour's back rank (row 7 for White,
\* row 0 for Black)
C31_BonusOnOwnBackRank ==
    [][/\ OrdersAtRoot => BonusForDevelopment(search.allMoves, game)
       /\ OrdersAtNode => BonusForDevelopment(getAllPossibleMoves(NodeGame), NodeGame)]_vars

---------------------------------------------------------------------------
\* the top activation of minimax returns the sum evaluatePosition makes over
\* the pieces of its position
EvaluatesPieces == StaticLeaf /\ NodeGame.State \notin {Checkmate, Stalemate}

\* a knight or bishop that stands on another row than its starting rank
Developed(piece, row) ==
    piece.Type \in {Knight, Bishop} /\ row # OwnBackRank(piece.Color)

\* every piece of the board is given the flat development bonus exactly when
\* it is a developed knight or bishop
BonusForDeveloped(b) ==
    \A pos \in BoardPositions :
        LET piece == GetPiece(b, pos)
        IN piece # Nil =>
               pieceDevelopment(piece, pos.Row) = (IF Developed(piece, pos.Row) THEN 15 ELSE 0)

\* C32: whenever minimax evaluates a position statically, the value of a
\* piece holds the flat development bonus (0.15) exactly when the piece is a
\* knight or bishop that is no longer on its own starting rank (row 7 for
\* White, row 0 for Black); in the initial position no piece has it
C32_BonusOffStartingRank ==
    [][EvaluatesPieces => BonusForDeveloped(NodeGame.Board)]_vars

---------------------------------------------------------------------------
\* the rows of a colour's back two ranks: its starting rank and the one of
\* its pawns
BackTwoRanks(color) == IF color = White THEN {6, 7} ELSE {0, 1}

\* the engine's king stands on one of its own back two ranks
KingAtHome(g, color) ==
    /\ findKing(g, color) # NilPosition
    /\ findKing(g, color).Row \in BackTwoRanks(color)

\* C33: whenever minimax evaluates a position statically, the king-safety
\* term holds the +0.2 bonus exactly when the engine's king stands on one of
\* its own back two ranks (rows 6-7 for a White engine, rows 0-1 for a Black
\* engine); on those rows the term has no other part
C33_KingBonusOnOwnBackRanks ==
    [][EvaluatesPieces =>
          (kingSafety(NodeGame, ai.color) = 20 <=> KingAtHome(NodeGame, ai.color))]_vars

---------------------------------------------------------------------------
\* the squares on which the pieces relocated by the first n moves of the
\* history stand after those moves
RECURSIVE MovedPieces(_, _)
MovedPieces(history, n) ==
    IF n = 0 THEN {}
    ELSE (MovedPieces(history, n - 1) \ {history[n].From}) \cup {history[n].To}

\* C34: after NewGame and any sequence of MakeMove calls a piece's HasMoved
\* flag is true only if the piece was relocated by an applied move: every
\* piece that was never the subject of an accepted move has HasMoved false
C34_HasMovedOnlyAfterAppliedMove ==
    \A pos \in BoardPositions :
        (GetPiece(squares, pos) # Nil /\ GetPiece(squares, pos).HasMoved)
            => pos \in MovedPieces(MoveHistory, Len(MoveHistory))

---------------------------------------------------------------------------
\* C35: Board.IsValidMove returns false for every move whose `from` or `to`
\* lies outside the board, whatever the kind and colour of the piece on
\* `from` and whichever side is asked for
C35_OffBoardMoveIsInvalid ==
    (/\ Asked("IsValidMove")
     /\ ~IsValid(call.move.From) \/ ~IsValid(call.move.To))
        => call.ret = FALSE

---------------------------------------------------------------------------
\* C36: every Board.MovePiece(from, to) call that returns true leaves the
\* moved piece (kind and colour) standing on `to` and the piece of every
\* square other than `from` and `to` as it was, so that at most the piece
\* that stood on `to` has left the board; the call with from equal to to
\* leaves the pieces of the board unchanged
C36_MovedPieceStandsOnTo ==
    [][(call'.op = "MovePiece" /\ call'.ret) =>
          /\ GetPiece(squares', call'.to) # Nil
          /\ SamePiece(GetPiece(squares', call'.to), GetPiece(squares, call'.from))
          /\ \A pos \in BoardPositions \ {call'.from, call'.to} :
                SamePiece(GetPiece(squares', pos), GetPiece(squares, pos))]_vars

---------------------------------------------------------------------------
(* ui/interface.go: Interface.Run, the loop that plays the human (White)   *)
(* against the engine (Black).  What Run prints is not modelled.  The      *)
(* reader delivers lines for as long as its stream lasts; once the stream  *)
(* has ended every ReadString returns the empty string (and io.EOF, which  *)
(* getInput drops).  ui.pc is the position of Run: at the head of its      *)
(* loop, at getInput, in makeAIMove, or returned.                           *)

\* the texts ReadString('\n') can deliver while the stream lasts: an empty
\* line, quit, exit, help, "moves e2", the moves "e2 e4" and "e2 e5", and the
\* single word "e2"
Lines ==
    { <<10>>,
      <<113, 117, 105, 116, 10>>,
      <<101, 120, 105, 116, 10>>,
      <<104, 101, 108, 112, 10>>,
      <<109, 111, 118, 101, 115, 32>> \o Note("e", 2) \o <<10>>,
      Note("e", 2) \o <<32>> \o Note("e", 4) \o <<10>>,
      Note("e", 2) \o <<32>> \o Note("e", 5) \o <<10>>,
      Note("e", 2) \o <<10>> }

\* ui.reader.ReadString('\n'): the text returned and the reader afterwards
ReadString(reader) ==
    IF reader = "exhausted" THEN {[text |-> <<>>, reader |-> "exhausted"]}
    ELSE {[text |-> line, reader |-> "open"] : line \in Lines}
         \cup {[text |-> <<>>, reader |-> "exhausted"]}

\* unicode.IsSpace on a byte of ASCII text
IsSpace(c) == c \in {9, 10, 11, 12, 13, 32}

\* strings.TrimSpace
TrimSpace(s) ==
    LET kept == {i \in 1..Len(s) : ~IsSpace(s[i])}
    IN IF kept = {} THEN <<>>
       ELSE SubSeq(s, CHOOSE i \in kept : \A j \in kept : i <= j,
                      CHOOSE i \in kept : \A j \in kept : i >= j)

\* strings.HasPrefix
HasPrefix(s, prefix) == Len(s) >= Len(prefix) /\ SubSeq(s, 1, Len(prefix)) = prefix

\* strings.Fields: the words between runs of white space
RECURSIVE Fields(_)
Fields(s) ==
    LET kept == {i \in 1..Len(s) : ~IsSpace(s[i])}
    IN IF kept = {} THEN <<>>
       ELSE LET first == CHOOSE i \in kept : \A j \in kept : i <= j
                gaps == {j \in first..Len(s) : IsSpace(s[j])}
                stop == IF gaps = {} THEN Len(s) + 1
                        ELSE CHOOSE i \in gaps : \A j \in gaps : i <= j
            IN <<SubSeq(s, first, stop - 1)>> \o Fields(SubSeq(s, stop, Len(s)))

\* the program as main starts it: NewInterface, before Run is called
InitRun ==
    /\ squares = NewGame.Board
    /\ CurrentPlayer = NewGame.CurrentPlayer
    /\ State = NewGame.State
    /\ MoveHistory = NewGame.MoveHistory
    /\ call = [op |-> "NewGame"]
    /\ ai = NewAI(Black, 3)
    /\ clones = <<>>
    /\ stack = <<>>
    /\ \E ties \in TieOrders : search = Stopped("idle", ties)
    /\ ui = NotRunning

\* ui.Run() is called
CallRun ==
    /\ ui.pc = "idle"
    /\ ui' = [ui EXCEPT !.pc = "loop"]
    /\ call' = [op |-> "Run"]
    /\ UNCHANGED <<gameVars, ai, clones, stack, search>>

\* Run, the head of its loop: leave it when the game is over, else go to the
\* engine's turn or to the human's
RunLoop ==
    /\ ui.pc = "loop"
    /\ ui' = [ui EXCEPT !.pc = IF IsGameOver(State) THEN "done"
                                ELSE IF CurrentPlayer = Black THEN "ai"
                                ELSE "input"]
    /\ UNCHANGED <<gameVars, call, ai, clones, stack, search>>

\* makeAIMove up to its call of GetBestMove
MakeAIMoveCall ==
    /\ ui.pc = "ai"
    /\ search.pc = "idle"
    /\ IF CurrentPlayer # Black
       THEN /\ ui' = [ui EXCEPT !.pc = "done"]
            /\ UNCHANGED <<gameVars, call, ai, clones, stack, search>>
       ELSE \E n \in {getBestMoveEnter(machine)} : Becomes(n)

\* makeAIMove from the return of GetBestMove: play the move found; Run goes
\* on with its loop if that succeeded and leaves it if not
MakeAIMoveReturn ==
    /\ ui.pc = "ai"
    /\ search.pc = "done"
    /\ search' = Stopped("idle", search.ties)
    /\ UNCHANGED <<ai, clones, stack>>
    /\ IF ~call.found
       THEN /\ ui' = [ui EXCEPT !.pc = "done"]
            /\ UNCHANGED <<gameVars, call>>
       ELSE \E res \in {MakeMove(game, String(call.from), String(call.to))} :
               /\ squares' = res.game.Board
               /\ CurrentPlayer' = res.game.CurrentPlayer
               /\ State' = res.game.State
               /\ MoveHistory' = res.game.MoveHistory
               /\ call' = [op |-> "MakeMove", err |-> res.err]
               /\ ui' = [ui EXCEPT !.pc = IF res.err = "nil" THEN "loop" ELSE "done"]

\* Run, the human's turn: getInput, the switch on the input, and processMove
\* for an input that is no command: MakeMove is called when the input has
\* exactly two words, and Run goes on with its loop whatever it returns
RunInput ==
    /\ ui.pc = "input"
    /\ \E read \in ReadString(ui.reader) :
       \E input \in {TrimSpace(read.text)} :
       \E parts \in {Fields(input)} :
          /\ ui' = [pc |-> IF input \in {<<113, 117, 105, 116>>, <<101, 120, 105, 116>>}
                           THEN "done" ELSE "loop",
                    reader |-> read.reader, input |-> input]
          /\ IF \/ input \in {<<113, 117, 105, 116>>, <<101, 120, 105, 116>>}
                \/ input = <<104, 101, 108, 112>>
                \/ HasPrefix(input, <<109, 111, 118, 101, 115, 32>>)
                \/ input = <<>>
                \/ Len(parts) # 2
             THEN UNCHANGED <<gameVars, call>>
             ELSE \E res \in {MakeMove(game, parts[1], parts[2])} :
                     /\ squares' = res.game.Board
                     /\ CurrentPlayer' = res.game.CurrentPlayer
                     /\ State' = res.game.State
                     /\ MoveHistory' = res.game.MoveHistory
                     /\ call' = [op |-> "MakeMove", err |-> res.err]
    /\ UNCHANGED <<ai, clones, stack, search>>

\* the steps of Run itself
RunStep ==
    \/ CallRun
    \/ RunLoop
    \/ RunInput
    \/ MakeAIMoveCall
    \/ MakeAIMoveReturn

NextRun ==
    \/ RunStep
    \/ GetBestMoveDepth
    \/ GetBestMoveLoop
    \/ MinimaxEnter
    \/ MinimaxLoop

\* GetBestMove has been called and has not returned
Searching == search.pc \in {"depths", "moves"}

\* Run is one goroutine, and a read from its reader returns: while Run has
\* not returned its next step is eventually taken.  For the steps of the
\* search this is written as in SpecAILive.
SpecRun ==
    /\ InitRun
    /\ [][NextRun]_vars
    /\ WF_vars(RunStep)
    /\ ([]<>~Searching \/ []<><<TRUE>>_vars)

---------------------------------------------------------------------------
\* the input stream is exhausted while it is White's turn in a game that is
\* not over, in a Run that has been called
ExhaustedOnWhitesTurn ==
    /\ ui.pc \in {"loop", "input"}
    /\ ui.reader = "exhausted"
    /\ CurrentPlayer = White
    /\ ~IsGameOver(State)

\* C37: if the input stream is exhausted while it is White's turn and the
\* game is not over, Interface.Run terminates: it eventually returns instead
\* of looping forever
C37_RunReturnsOnExhaustedInput == ExhaustedOnWhitesTurn ~> ui.pc = "done"

---------------------------------------------------------------------------
\* the activation is a maximizing one exactly when the side to move in the
\* game it searches is the engine's colour
RoleIsSideToMove(frame) ==
    frame.isMaximizing <=> (Memory(game, clones)[frame.game].CurrentPlayer = ai.color)

\* C38: in every minimax call made during GetBestMove, isMaximizing is true
\* exactly when the side to move in the searched position is the AI's colour;
\* the activation that stores an entry in the transposition table is one of
\* them, so every score stored for a position with a given side to move was
\* computed in the same role
C38_MaximizingIffEnginesTurn ==
    \A k \in 1..Len(stack) : RoleIsSideToMove(stack[k])

\* a maximizing activation called by a minimizing one is about to store the
\* score of its position, in a table that holds entries already
C38_Witness ==
    /\ Len(stack) = 2
    /\ ~stack[1].isMaximizing
    /\ stack[2].isMaximizing
    /\ NodeGame.CurrentPlayer = ai.color
    /\ ai.transpositionTable # <<>>

---------------------------------------------------------------------------
\* the game with the piece of `from` standing on the empty square `to`
\* instead, the side to move unchanged
WithPieceOn(g, from, to) ==
    [g EXCEPT !.Board = SetPiece(SetPiece(g.Board, to, GetPiece(g.Board, from)), from, Nil)]

\* C39: hashPosition depends on the square of every piece: for the position
\* of every minimax call, relocating any single piece to a different empty
\* square with the side to move unchanged changes the hash, so the two
\* positions never share an entry of the transposition table
C39_RelocationChangesHash ==
    Entered =>
        \A from \in BoardPositions, to \in BoardPositions :
            (GetPiece(NodeGame.Board, from) # Nil /\ GetPiece(NodeGame.Board, to) = Nil)
                => hashPosition(WithPieceOn(NodeGame, from, to)) # hashPosition(NodeGame)

=============================================================================
